---------------------------- MODULE Spec2Model ----------------------------
(***************************************************************************)
(* FinTrack bot: the conversation state machine (aiogram FSM), the anchor   *)
(* message controller and the persistence calls of Commands.py and         *)
(* Function.py, as a state machine over one private chat per user.         *)
(*                                                                         *)
(* Texts are sequences of one-character strings, so that strip(),          *)
(* replace() and float() are computed on characters.  Message ids number   *)
(* the bot's own messages of a chat, in the order they were sent.          *)
(***************************************************************************)
EXTENDS Integers, Sequences, FiniteSets, TLC

\* ------------------------------------------------------------------ bounds
\* Longest text drawn for the amount parser (SpecParse).
MaxLen == 3
\* Most bot messages ever sent into one chat.
MaxMsgId == 2
\* Most rows of the transactions and debts tables together.
MaxRows == 1
\* Most transport faults of one run: edits that fail although the message
\* is in the chat and would change, and deletions by the bot that fail.
MaxFaults == 1
\* The chat-history bound that C10 is tested against.
HistoryBound == 1

Users == {1, 2}

\* ------------------------------------------------------------ text helpers
Digits == {"0", "2", "5"}
\* The alphabet the parser's inputs are drawn from.
Chars == Digits \cup {".", ",", "-", "+", " ", "n", "a", "i", "f"}

RECURSIVE LStrip(_)
LStrip(s) == IF s # <<>> /\ Head(s) = " " THEN LStrip(Tail(s)) ELSE s

RECURSIVE RStrip(_)
RStrip(s) ==
    IF s # <<>> /\ s[Len(s)] = " " THEN RStrip(SubSeq(s, 1, Len(s) - 1)) ELSE s

\* str.strip()
Strip(s) == RStrip(LStrip(s))

\* str.replace(",", ".")
ReplaceComma(s) == [i \in 1..Len(s) |-> IF s[i] = "," THEN "." ELSE s[i]]

DigitVal(c) == CASE c = "0" -> 0 [] c = "2" -> 2 [] c = "5" -> 5 [] OTHER -> 0

RECURSIVE DigitsVal(_)
DigitsVal(s) ==
    IF s = <<>> THEN 0
    ELSE 10 * DigitsVal(SubSeq(s, 1, Len(s) - 1)) + DigitVal(s[Len(s)])

RECURSIVE Pow10(_)
Pow10(k) == IF k = 0 THEN 1 ELSE 10 * Pow10(k - 1)

AllDigits(s) == \A i \in 1..Len(s) : s[i] \in Digits

\* Positions of "." in s.
Dots(s) == {i \in 1..Len(s) : s[i] = "."}

\* A number is num/den with a sign; nan and inf are the float specials.
Num(neg, num, den) == [kind |-> "num", neg |-> neg, num |-> num, den |-> den]
NaN == [kind |-> "nan", neg |-> FALSE, num |-> 0, den |-> 1]
Inf(neg) == [kind |-> "inf", neg |-> neg, num |-> 0, den |-> 1]
FloatError == [kind |-> "err", neg |-> FALSE, num |-> 0, den |-> 1]
NoAmount == [kind |-> "none", neg |-> FALSE, num |-> 0, den |-> 1]

\* num/den without trailing zeros of the fraction: 5.0 and 5 are one float.
RECURSIVE Reduce(_, _, _)
Reduce(neg, num, den) ==
    IF den > 1 /\ num % 10 = 0 THEN Reduce(neg, num \div 10, den \div 10)
    ELSE Num(neg, num, den)

\* The unsigned body of a float literal: digits with at most one point and
\* at least one digit, or one of the special tokens.
FloatBody(b, neg) ==
    IF b = <<"n", "a", "n">> THEN NaN
    ELSE IF b = <<"i", "n", "f">> THEN Inf(neg)
    ELSE IF Cardinality(Dots(b)) = 0
         THEN IF b # <<>> /\ AllDigits(b)
              THEN Reduce(neg, DigitsVal(b), 1) ELSE FloatError
    ELSE IF Cardinality(Dots(b)) = 1
         THEN LET d == CHOOSE i \in Dots(b) : TRUE
                  ip == SubSeq(b, 1, d - 1)
                  fp == SubSeq(b, d + 1, Len(b))
              IN  IF AllDigits(ip) /\ AllDigits(fp) /\ Len(ip) + Len(fp) > 0
                  THEN Reduce(neg, DigitsVal(ip \o fp), Pow10(Len(fp)))
                  ELSE FloatError
    ELSE FloatError

\* Python's float(str): surrounding whitespace, an optional sign, then the body.
Float(s) ==
    LET t == Strip(s)
    IN  IF t # <<>> /\ Head(t) \in {"+", "-"}
        THEN FloatBody(Tail(t), Head(t) = "-")
        ELSE FloatBody(t, FALSE)

\* amount <= 0 on floats: false for nan, true for -inf, zero and negatives.
LeqZero(v) ==
    CASE v.kind = "nan" -> FALSE
      [] v.kind = "inf" -> v.neg
      [] OTHER -> v.neg \/ v.num = 0

\* The amount step of tx_amount and debt_amount: the parsed amount, or
\* FloatError when the except branch is taken.
ParseAmount(text) ==
    LET amount == Float(ReplaceComma(Strip(text)))
    IN  IF amount.kind = "err" \/ LeqZero(amount) THEN FloatError ELSE amount

\* The amount 250.50 as a float.
Amount250_50 == Num(FALSE, 2505, 10)

\* 0.0
Zero == Num(FALSE, 0, 1)

\* The numerator with its sign.
Signed(v) == IF v.neg THEN 0 - v.num ELSE v.num

\* a + b on floats (rounding aside): nan spreads, inf + (-inf) is nan.
FloatAdd(a, b) ==
    IF a.kind = "nan" \/ b.kind = "nan" THEN NaN
    ELSE IF a.kind = "inf" /\ b.kind = "inf"
         THEN IF a.neg = b.neg THEN a ELSE NaN
    ELSE IF a.kind = "inf" THEN a
    ELSE IF b.kind = "inf" THEN b
    ELSE LET den == IF a.den >= b.den THEN a.den ELSE b.den
             n == Signed(a) * (den \div a.den) + Signed(b) * (den \div b.den)
         IN  IF n < 0 THEN Reduce(TRUE, 0 - n, den) ELSE Reduce(FALSE, n, den)

\* a - b on floats
FloatSub(a, b) == FloatAdd(a, [b EXCEPT !.neg = ~@])

\* a == b on floats: nan equals nothing, itself included.
FloatEq(a, b) == a.kind # "nan" /\ b.kind # "nan" /\ a = b

\* NULL in a REAL column, which is also how SQLite stores a nan.
SqlNull == NoAmount
Stored(amount) == IF amount.kind = "nan" THEN SqlNull ELSE amount

\* SUM(amount) of SQL over a list of values: NULLs are skipped, and the
\* sum of no value at all is NULL.
RECURSIVE SqlSum(_)
SqlSum(vals) ==
    IF vals = <<>> THEN SqlNull
    ELSE LET rest == SqlSum(Tail(vals))
         IN  IF Head(vals) = SqlNull THEN rest
             ELSE IF rest = SqlNull THEN Head(vals)
             ELSE FloatAdd(Head(vals), rest)

\* --------------------------------------------------------------- the state
VARIABLES
    fsm,     \* fsm[u]: the FSM state of user u ("idle" is aiogram's None)
    data,    \* data[u]: the FSM data of user u, the partial record
    users,   \* users[u]: the row of table users, or NoRow
    msgs,    \* msgs[u][i]: what the bot's i-th message in u's chat shows
    txs,     \* table transactions, in insertion order
    debts,   \* table debts, in insertion order; the row's id is its index
    last,    \* what the handling of the last event did (observation only)
    faults,  \* the transport faults so far
    sup,     \* the supervisor of serve.py: its tasks and the bot subprocess
    tasks    \* the track_toggle handlers that run side by side

vars == <<fsm, data, users, msgs, txs, debts, last, faults, sup, tasks>>

\* The handler tasks followed step by step: the tracked list when their
\* events arrived (t0) and, for each task, the user, the message and
\* button pressed, and where the handler stands (pc).  Every other
\* handler is followed as one step.
NoTasks == [t0 |-> <<>>, run |-> <<>>]

\* The supervisor: main's position (start, sleep05, waiting, holding), the
\* http task (none, created, serving, crashed), the bot task (none,
\* spawning, waiting, sleeping, crashed), the bot subprocess (none,
\* running, exited), the calls of create_subprocess_exec and the exits of
\* the subprocess so far.
Sup(main, http, bot, proc, spawns, exits) ==
    [main |-> main, http |-> http, bot |-> bot, proc |-> proc,
     spawns |-> spawns, exits |-> exits]

\* serve.py before main runs.
SupStart == Sup("start", "none", "none", "none", 0, 0)

\* serve.py while the bot handles events: the health endpoint is served
\* and run_bot_forever waits for the subprocess it spawned.
SupRunning == Sup("waiting", "serving", "waiting", "running", 1, 0)

\* TxStates and DebtStates
TxStates == {"tx_waiting_amount", "tx_waiting_category", "tx_waiting_note"}
DebtStates == {"debt_waiting_direction", "debt_waiting_counterparty",
               "debt_waiting_amount", "debt_waiting_note"}
States == {"idle"} \cup TxStates \cup DebtStates

\* FSM data: `has` is the set of keys present, absent keys hold a default.
NoData == [has |-> {}, tx_type |-> "", amount |-> NoAmount, category |-> "",
           direction |-> "", counterparty |-> <<>>]

\* state.clear(): state None and data {}.
StateClear == [state |-> "idle", data |-> NoData]

\* state.update_data(key=value) on FSM data d.
UpdateData(d, key, value) ==
    [[d EXCEPT !.has = @ \cup {key}] EXCEPT ![key] = value]

\* ------------------------------------------------------------ table users
DEFAULT_BASE_CCY == "KZT"
DEFAULT_TRACKED == <<"USD", "RUB">>
\* get_anchor's None, also what a NULL or 0 anchor_msg_id reads as.
NoAnchor == 0

\* tracked_ccy is the JSON list of the column, as a sequence.
NoRow == [exists |-> FALSE, base_ccy |-> "", tracked_ccy |-> <<>>,
          anchor_msg_id |-> NoAnchor]

\* get_or_create_user: the table after the call (the row is inserted with
\* the defaults when it is missing).
GetOrCreateUser(us, u) ==
    IF us[u].exists THEN us
    ELSE [us EXCEPT ![u] = [exists |-> TRUE, base_ccy |-> DEFAULT_BASE_CCY,
                            tracked_ccy |-> DEFAULT_TRACKED,
                            anchor_msg_id |-> NoAnchor]]

\* get_anchor
GetAnchor(us, u) ==
    IF us[u].exists /\ us[u].anchor_msg_id # 0
    THEN us[u].anchor_msg_id ELSE NoAnchor

\* set_anchor -> update_user_settings: UPDATE users ... WHERE user_id=?
\* changes nothing when the user has no row.
SetAnchor(us, u, msg_id) ==
    IF us[u].exists THEN [us EXCEPT ![u].anchor_msg_id = msg_id] ELSE us

\* update_user_settings(base_ccy=val) with an UPDATE that has no WHERE
\* clause: every row takes the value.
SetBaseCcyEveryRow(us, u, val) ==
    [v \in DOMAIN us |->
        IF us[v].exists THEN [us[v] EXCEPT !.base_ccy = val] ELSE us[v]]

\* update_user_settings(base_ccy=val)
SetBaseCcy(us, u, val) ==
    IF us[u].exists THEN [us EXCEPT ![u].base_ccy = val] ELSE us

\* The tracked-currency limit of track_toggle and update_user_settings.
MaxTracked == 5

\* The elements of a list.
Range(v) == {v[i] : i \in 1..Len(v)}

\* update_user_settings(tracked_ccy=v): json.dumps(v[:5]).
SetTrackedCcy(us, u, v) ==
    LET kept == IF Len(v) <= MaxTracked THEN v ELSE SubSeq(v, 1, MaxTracked)
    IN  IF us[u].exists THEN [us EXCEPT ![u].tracked_ccy = kept] ELSE us

\* ------------------------------------------------ screens and keyboards
\* What a message shows: a text, a keyboard, and the data both were
\* rendered from (n: page, cnt: the user's transaction count, more:
\* has_more, ids: open debt ids, base/tracked: the settings shown, tracked
\* as a list, sums: the month summary, rows: the ranks, newest first, of
\* the transactions listed in the table).
NoSums == [month_key |-> "", income |-> Zero, expense |-> Zero,
           free |-> Zero]
Scr(text, kb) == [text |-> text, kb |-> kb, n |-> 0, cnt |-> 0,
                  more |-> FALSE, ids |-> {}, base |-> "", tracked |-> <<>>,
                  sums |-> NoSums, rows |-> {}]
\* A message that is no longer in the chat.
Deleted == Scr("deleted", "none")
\* No screen rendered.
NoScreen == Scr("none", "none")

Tok(act, arg, num) == [act |-> act, arg |-> arg, num |-> num]
NoTok == Tok("", "", 0)

\* The category lists (English stand-ins; "Other" is the catch-all
\* category present in both lists).
DEFAULT_CATEGORIES == {"Food", "Transport", "Other"}
INCOME_CATEGORIES == {"Job", "Other"}
\* kb_base_choices and set_tracked_cb's all_ccy
BASE_CHOICES == {"KZT", "USD", "RUB", "EUR", "USDT"}
ALL_CCY == {"USD", "RUB", "EUR", "CNY", "GBP", "USDT", "BTC"}
\* set_tracked_cb's all_ccy in its order, which is also the order taken for
\* list(cur): Python leaves the order of a set's elements open, and nothing
\* modelled here depends on it.
all_ccy == <<"USD", "RUB", "EUR", "CNY", "GBP", "USDT", "BTC">>
ListOf(cur) == SelectSeq(all_ccy, LAMBDA c : c \in cur)

kb_main ==
    {Tok("expense_add", "", 0), Tok("income_add", "", 0),
     Tok("summary", "", 0), Tok("history", "", 1), Tok("rates", "", 0),
     Tok("debts", "", 0), Tok("settings", "", 0), Tok("clear", "", 0)}

kb_cancel == {Tok("cancel", "", 0)}

kb_categories(for_income) ==
    {Tok("cat", c, 0) :
        c \in IF for_income THEN INCOME_CATEGORIES ELSE DEFAULT_CATEGORIES}
    \cup {Tok("cat", "__skip__", 0), Tok("cancel", "", 0)}

kb_history(page, has_more) ==
    LET back == IF page > 1 THEN {Tok("history", "", page - 1)} ELSE {}
        fwd == IF has_more THEN {Tok("history", "", page + 1)} ELSE {}
        nav == IF back \cup fwd = {} THEN {Tok("history", "", page)}
               ELSE back \cup fwd
    IN  nav \cup {Tok("home", "", 0)}

kb_debts(ids) ==
    {Tok("debt_close", "", d) : d \in ids}
    \cup {Tok("debt_add", "", 0), Tok("debts_closed", "", 0),
          Tok("home", "", 0)}

kb_dir == {Tok("dir", "to_me", 0), Tok("dir", "from_me", 0),
           Tok("cancel", "", 0)}

kb_settings == {Tok("set_base", "", 0), Tok("set_tracked", "", 0),
                Tok("home", "", 0)}

kb_base_choices ==
    {Tok("base", x, 0) : x \in BASE_CHOICES} \cup {Tok("cancel", "", 0)}

kb_tracked ==
    {Tok("track", c, 0) : c \in ALL_CCY}
    \cup {Tok("track_save", "", 0), Tok("cancel", "", 0)}

\* The callback tokens of the buttons a message carries.
Buttons(c) ==
    CASE c.kb = "main" -> kb_main
      [] c.kb = "cancel" -> kb_cancel
      [] c.kb = "cat_expense" -> kb_categories(FALSE)
      [] c.kb = "cat_income" -> kb_categories(TRUE)
      [] c.kb = "history" -> kb_history(c.n, c.more)
      [] c.kb = "debts" -> kb_debts(c.ids)
      [] c.kb = "dir" -> kb_dir
      [] c.kb = "settings" -> kb_settings
      [] c.kb = "base" -> kb_base_choices
      [] c.kb = "tracked" -> kb_tracked
      [] OTHER -> {}


\* ---------------------------------------------------------------- routing
\* The text of the /start command.
StartText == <<"/start">>

\* The first message handler, in registration order, whose filter matches.
MsgHandler(st, text) ==
    CASE text = StartText -> "start_cmd"
      [] st = "tx_waiting_amount" -> "tx_amount"
      [] st = "tx_waiting_note" -> "tx_note"
      [] st = "debt_waiting_counterparty" -> "debt_cp"
      [] st = "debt_waiting_amount" -> "debt_amount"
      [] st = "debt_waiting_note" -> "debt_note"
      [] st = "tx_waiting_category" -> "warn_choose_option_tx"
      [] st = "debt_waiting_direction" -> "warn_choose_option_debt_dir"
      [] OTHER -> "generic_warn"

\* The first callback handler, in registration order, whose filter matches;
\* "unhandled" when none does.
CbHandler(st, tok) ==
    CASE tok.act = "home" -> "home_cb"
      [] tok.act = "cancel" -> "cancel_cb"
      [] tok.act = "clear" -> "clear_cb"
      [] tok.act = "summary" -> "summary_cb"
      [] tok.act = "rates" -> "rates_cb"
      [] tok.act = "history" -> "history_cb"
      [] tok.act = "expense_add" -> "expense_add"
      [] tok.act = "income_add" -> "income_add"
      [] tok.act = "cat" /\ st = "tx_waiting_amount" -> "tx_category_wrong_cb"
      [] tok.act = "cat" /\ st = "tx_waiting_category" -> "tx_category"
      [] tok.act = "debts" -> "debts_cb"
      [] tok.act = "debt_add" -> "debt_add_start"
      [] tok.act = "dir" /\ st = "debt_waiting_direction" -> "debt_dir"
      [] tok.act = "debt_close" -> "debt_close_cb"
      [] tok.act = "settings" -> "settings_cb"
      [] tok.act = "set_base" -> "set_base_cb"
      [] tok.act = "base" -> "base_save"
      [] tok.act = "set_tracked" -> "set_tracked_cb"
      [] tok.act = "track" -> "track_toggle"
      [] tok.act = "track_save" -> "track_save"
      [] OTHER -> "unhandled"

\* ------------------------------------------------------- anchor controller
\* Two screens the transport takes for the same content (an edit then
\* fails as "message is not modified").  Exchange rates change between
\* renders, so two rate screens are not taken for identical.
Same(c1, c2) == c1 = c2 /\ c1.text # "rates"

\* edit_message_text on message id of chat ms can succeed: the message is
\* in the chat and the new content differs from what it shows.
CanEdit(ms, id, c) ==
    /\ id \in 1..Len(ms)
    /\ ms[id] # Deleted
    /\ ~Same(ms[id], c)

\* The outcome of a render: the users table and the chat afterwards,
\* whether the call raised, how the screen was delivered and where, and
\* the stored anchor whose edit was tried and failed (NoAnchor if none).
Rendered(us, ms, raised, via, shown, c, tried) ==
    [users |-> us, msgs |-> ms, raised |-> raised, via |-> via,
     shown |-> shown, out |-> c, tried |-> tried]

\* 1 when an edit of message id that could have succeeded failed.
Fault(ms, id, c, ok) == IF ~ok /\ CanEdit(ms, id, c) THEN 1 ELSE 0

\* A handler path that renders nothing.
NoRender(us, ms) == Rendered(us, ms, FALSE, "none", 0, NoScreen, NoAnchor)

\* A handler that raised before it rendered anything.
Raised(us, ms) == Rendered(us, ms, TRUE, "raise", 0, NoScreen, NoAnchor)

\* reply_or_edit_anchor; ok: the edit of the stored anchor succeeds.
ReplyOrEditAnchor(us, ms, u, c, ok) ==
    LET anchor_id == GetAnchor(us, u)
    IN  IF anchor_id # NoAnchor /\ ok
        THEN Rendered(us, [ms EXCEPT ![anchor_id] = c], FALSE, "edit",
                      anchor_id, c, NoAnchor)
        ELSE Rendered(SetAnchor(us, u, Len(ms) + 1), Append(ms, c), FALSE,
                      "send", Len(ms) + 1, c, anchor_id)

\* edit_anchor_from_cb; ok1: the edit of the stored anchor succeeds,
\* ok2: the edit of the pressed message (cb.message.edit_text) succeeds.
EditAnchorFromCb(us, ms, u, mid, c, ok1, ok2) ==
    LET anchor_id == GetAnchor(us, u)
    IN  IF anchor_id # NoAnchor /\ ok1
        THEN Rendered(us, [ms EXCEPT ![anchor_id] = c], FALSE, "edit",
                      anchor_id, c, NoAnchor)
        ELSE IF ok2
        THEN Rendered(SetAnchor(us, u, mid), [ms EXCEPT ![mid] = c], FALSE,
                      "cb_edit", mid, c, anchor_id)
        ELSE Rendered(SetAnchor(us, u, mid), ms, TRUE, "raise", 0, c,
                      anchor_id)

\* The outcomes the transport can produce for reply_or_edit_anchor, within
\* the bounds on faults and messages.
MsgOutcome(us, ms, u, c, ok) ==
    /\ ok => GetAnchor(us, u) # NoAnchor /\ CanEdit(ms, GetAnchor(us, u), c)
    /\ ~ok => Len(ms) < MaxMsgId
    /\ faults + Fault(ms, GetAnchor(us, u), c, ok) <= MaxFaults
    /\ faults' = faults + Fault(ms, GetAnchor(us, u), c, ok)

\* The outcomes the transport can produce for edit_anchor_from_cb, within
\* the bound on faults.
CbOutcome(us, ms, u, mid, c, ok1, ok2) ==
    LET f == Fault(ms, GetAnchor(us, u), c, ok1)
             + (IF ok1 THEN 0 ELSE Fault(ms, mid, c, ok2))
    IN  /\ ok1 => GetAnchor(us, u) # NoAnchor
                  /\ CanEdit(ms, GetAnchor(us, u), c)
        /\ ok2 => ~ok1 /\ CanEdit(ms, mid, c)
        /\ faults + f <= MaxFaults
        /\ faults' = faults + f

\* ------------------------------------------------------------ observation
\* What handler h did for user u on the message `text` or the press of
\* token tok: from which conversation state it started, how often it
\* answered the callback, whether it tried to delete the incoming message,
\* the alert it showed, and the outcome r of its render.
\* fx and cached are what a rates request met: how the rate provider
\* behaved and which quotes had a fresh row in fx_cache ("none" and {}
\* for every other handler).
Observed(u, from, h, text, tok, acks, del, alert, r) ==
    [u |-> u, from |-> from, h |-> h, text |-> text, tok |-> tok,
     acks |-> acks, del |-> del, alert |-> alert, raised |-> r.raised,
     via |-> r.via, shown |-> r.shown, out |-> r.out, tried |-> r.tried,
     fx |-> "none", cached |-> {}]

\* The observation of a handler that starts from u's current state; the
\* pressed message mid is not recorded.
Obs(u, h, text, tok, mid, acks, del, alert, r) ==
    Observed(u, fsm[u], h, text, tok, acks, del, alert, r)

\* What a handler, or a step of one, wrote for user u.
Written(u, st, dt, r, txs2, debts2, obs) ==
    /\ fsm' = [fsm EXCEPT ![u] = st]
    /\ data' = [data EXCEPT ![u] = dt]
    /\ users' = r.users
    /\ msgs' = [msgs EXCEPT ![u] = r.msgs]
    /\ txs' = txs2
    /\ debts' = debts2
    /\ last' = obs
    /\ sup' = sup

\* The state after a handler ran for user u in one step.
Commit(u, st, dt, r, txs2, debts2, obs) ==
    /\ Written(u, st, dt, r, txs2, debts2, obs)
    /\ tasks' = tasks

\* cb.answer() runs once unless the render before it raised.
Acked(r) == IF r.raised THEN 0 ELSE 1


\* ------------------------------------------------------------------ inputs
\* The texts users send besides /start: at an amount step a valid amount,
\* a word, the skip sentinel and zero; at a note step the sentinel; a word
\* as counterparty and wherever no text is expected.
AmountTexts == {<<"2", "5", "0", ".", "5", "0">>, <<"a", "b", "c">>, <<"-">>,
                <<"0">>}
NoteTexts == {<<"-">>}
FreeTexts == {<<"a", "b", "c">>}

\* The buttons users press, among those a message carries: every button,
\* but only these categories, directions, base currencies and tracked
\* currencies.
CatInputs == {"Food", "__skip__"}
DirInputs == {"to_me"}
BaseInputs == {"USD"}
TrackInputs == {"EUR"}

Pressable(tok) ==
    /\ tok.act = "cat" => tok.arg \in CatInputs
    /\ tok.act = "dir" => tok.arg \in DirInputs
    /\ tok.act = "base" => tok.arg \in BaseInputs
    /\ tok.act = "track" => tok.arg \in TrackInputs

\* User u sends `text` and the router picks message handler h.
MsgEvent(u, text, h) == MsgHandler(fsm[u], text) = h

\* Button tok of the bot's message mid is in u's chat and the router gives
\* its press to callback handler h.
CbRouted(u, mid, tok, h) ==
    /\ mid \in 1..Len(msgs[u])
    /\ msgs[u][mid] # Deleted
    /\ tok \in Buttons(msgs[u][mid])
    /\ CbHandler(fsm[u], tok) = h

\* User u presses button tok of the bot's message mid and the router picks
\* callback handler h.
CbEvent(u, mid, tok, h) == CbRouted(u, mid, tok, h) /\ Pressable(tok)

\* -------------------------------------------------------------- the tables
\* The month of the clock, utcnow().strftime("%Y-%m"): the runs modelled
\* stay within one month.  Months adds the month before, for rows that
\* were inserted then.
ThisMonth == "2026-11"
Months == {"2026-10", ThisMonth}

\* add_transaction writing the default base currency for the user's.
AddTransactionDefaultCcy(t, u, typ, amount, ccy, category, note) ==
    Append(t, [user_id |-> u, type |-> typ, amount |-> Stored(amount),
               ccy |-> DEFAULT_BASE_CCY, category |-> category,
               note |-> note, month_key |-> ThisMonth])

\* add_transaction
AddTransaction(t, u, typ, amount, ccy, category, note) ==
    Append(t, [user_id |-> u, type |-> typ, amount |-> Stored(amount),
               ccy |-> ccy, category |-> category, note |-> note,
               month_key |-> ThisMonth])

\* get_month_summary: SELECT type, SUM(amount) ... WHERE user_id=? AND
\* month_key=? GROUP BY type; a type without rows is missing from the
\* result (data.get(type, 0)) and a NULL or zero sum reads as 0 (or 0).
GetMonthSummary(t, u, mk) ==
    LET amounts(typ) ==
            LET rows == SelectSeq(t, LAMBDA r :
                            r.user_id = u /\ r.month_key = mk /\ r.type = typ)
            IN  [i \in 1..Len(rows) |-> rows[i].amount]
        get(typ) == IF amounts(typ) = <<>> THEN Zero
                    ELSE SqlSum(amounts(typ))
        orzero(v) == IF v = SqlNull THEN Zero ELSE v
        income == orzero(get("income"))
        expense == orzero(get("expense"))
    IN  [month_key |-> mk, income |-> income, expense |-> expense,
         free |-> FloatSub(income, expense)]

\* add_debt with direction and counterparty bound to each other's column.
AddDebtSwapped(d, u, direction, counterparty, amount, ccy, note) ==
    Append(d, [user_id |-> u, direction |-> counterparty,
               counterparty |-> direction, amount |-> Stored(amount),
               ccy |-> ccy, note |-> note, status |-> "open"])

\* add_debt: the row is inserted with status 'open'.
AddDebt(d, u, direction, counterparty, amount, ccy, note) ==
    Append(d, [user_id |-> u, direction |-> direction,
               counterparty |-> counterparty, amount |-> Stored(amount),
               ccy |-> ccy, note |-> note, status |-> "open"])

\* close_debt without user_id=? in the WHERE clause.
CloseDebtAnyOwner(d, u, debt_id) ==
    [i \in 1..Len(d) |->
        IF i = debt_id /\ d[i].status = "open"
        THEN [d[i] EXCEPT !.status = "closed"] ELSE d[i]]

\* close_debt: UPDATE ... WHERE user_id=? AND id=? AND status='open'.
CloseDebt(d, u, debt_id) ==
    [i \in 1..Len(d) |->
        IF i = debt_id /\ d[i].user_id = u /\ d[i].status = "open"
        THEN [d[i] EXCEPT !.status = "closed"] ELSE d[i]]

\* The ids list_debts(user, 'open') returns.
ListDebts(d, u) ==
    {i \in 1..Len(d) : d[i].user_id = u /\ d[i].status = "open"}

\* kb_debts shows debts_open[:10], the newest first.
DebtsShown == 10
FirstDebts(ids) ==
    {i \in ids : Cardinality({j \in ids : j > i}) < DebtsShown}

\* The number of transactions of user u (all of the current month).
TxCount(t, u) == Cardinality({i \in 1..Len(t) : t[i].user_id = u})

\* history_cb's page size.
PER_PAGE == 8

\* len(list_transactions(user, mk, page, per_page)): LIMIT per_page
\* OFFSET (page-1)*per_page over cnt rows.
RowsOnPage(cnt, page, per_page) ==
    LET left == cnt - (page - 1) * per_page
    IN  IF left <= 0 THEN 0 ELSE IF left < per_page THEN left ELSE per_page

\* list_transactions(user, mk, page, per_page) over cnt rows, as the ranks
\* of the rows in the order created_at DESC: LIMIT per_page OFFSET
\* (page-1)*per_page.
ListTransactions(cnt, page, per_page) ==
    LET offset == (page - 1) * per_page
    IN  {r \in 1..cnt : offset < r /\ r <= offset + per_page}

\* rows[:k]
FirstRows(rows, k) == {r \in rows : Cardinality({q \in rows : q < r}) < k}

\* ----------------------------------------------------------------- screens
\* format_table of the rows listed with the month's totals (tx_note,
\* history_cb).
TableScreen(kb, page, cnt, more, rows) ==
    [Scr("table", kb) EXCEPT !.n = page, !.cnt = cnt, !.more = more,
                             !.rows = rows]

\* The summary text shows the month and its three sums.
SummaryScreen(cnt, sums) ==
    [Scr("summary", "main") EXCEPT !.cnt = cnt, !.sums = sums]

DebtsScreen(ids) == [Scr("debts", "debts") EXCEPT !.ids = FirstDebts(ids)]

SettingsScreen(row) ==
    [Scr("settings", "settings") EXCEPT !.base = row.base_ccy,
                                        !.tracked = row.tracked_ccy]

\* set_tracked_cb marks the currencies of cur = set(tracked_ccy).
TrackedScreen(row) ==
    [Scr("ask_tracked", "tracked") EXCEPT
        !.tracked = ListOf(Range(row.tracked_ccy))]

\* The rates text lists the pairs in the order of the tracked list.
RatesScreen(row, pairs) ==
    [Scr("rates", "main") EXCEPT
        !.base = row.base_ccy,
        !.tracked = SelectSeq(row.tracked_ccy, LAMBDA q : q \in pairs)]

\* note = (m.text or "").strip(); "-" stands for no note.
NoteOf(text) == IF Strip(text) = <<"-">> THEN <<>> ELSE Strip(text)

\* ---------------------------------------------------------------- handlers
\* start_cmd
StartCmd(u) ==
    \E ok \in BOOLEAN :
        LET us1 == GetOrCreateUser(users, u)
            c == Scr("start", "main")
            r == ReplyOrEditAnchor(us1, msgs[u], u, c, ok)
        IN  /\ MsgEvent(u, StartText, "start_cmd")
            /\ MsgOutcome(us1, msgs[u], u, c, ok)
            /\ Commit(u, StateClear.state, StateClear.data, r, txs, debts,
                      Obs(u, "start_cmd", StartText, NoTok, 0, 0, FALSE, "", r))

\* The presses <<mid, tok>> open to user u that the router gives to h.
Presses(u, h) ==
    {p \in UNION {{m} \X Buttons(msgs[u][m]) : m \in 1..Len(msgs[u])} :
        CbEvent(u, p[1], p[2], h)}

\* The common shape of a callback handler, for the press <<mid, tok>>: the
\* conversation becomes (st, dt), the users table is us, c is rendered
\* through edit_anchor_from_cb, then the callback is answered with alert.
CbRender(u, h, mid, tok, us, st, dt, c, debts2, alert) ==
    \E ok1 \in BOOLEAN, ok2 \in BOOLEAN :
        LET r == EditAnchorFromCb(us, msgs[u], u, mid, c, ok1, ok2)
        IN  /\ CbOutcome(us, msgs[u], u, mid, c, ok1, ok2)
            /\ Commit(u, st, dt, r, txs, debts2,
                      Obs(u, h, <<>>, tok, mid, Acked(r), FALSE,
                          IF r.raised THEN "" ELSE alert, r))

\* A callback handler that answers with alert and renders nothing.
CbAnswer(u, h, mid, tok, us, ms, alert) ==
    /\ Commit(u, fsm[u], data[u], NoRender(us, ms), txs, debts,
              Obs(u, h, <<>>, tok, mid, 1, FALSE, alert, NoRender(us, ms)))
    /\ UNCHANGED faults

\* home_cb
HomeCb(u) ==
    \E p \in Presses(u, "home_cb") :
        CbRender(u, "home_cb", p[1], p[2], users, StateClear.state,
                 StateClear.data, Scr("home", "main"), debts, "")

\* cancel_cb with state.set_state(None) for state.clear(): the FSM data
\* stays.
CancelCbSetState(u) ==
    \E p \in Presses(u, "cancel_cb") :
        CbRender(u, "cancel_cb", p[1], p[2], users, "idle", data[u],
                 Scr("cancelled", "main"), debts, "cancelled")

\* cancel_cb
CancelCb(u) ==
    \E p \in Presses(u, "cancel_cb") :
        CbRender(u, "cancel_cb", p[1], p[2], users, StateClear.state,
                 StateClear.data, Scr("cancelled", "main"), debts, "cancelled")

\* clear_cb deletes the ClearSpan message ids ending at the pressed
\* message and renders nothing; a deletion that fails is a fault.
ClearSpan == 20
ClearRange(u, mid) ==
    {i \in 1..Len(msgs[u]) :
        i <= mid /\ i > mid - ClearSpan /\ msgs[u][i] # Deleted}

ClearCb(u) ==
    \E p \in Presses(u, "clear_cb") :
      \E gone \in SUBSET ClearRange(u, p[1]) :
        LET f == Cardinality(ClearRange(u, p[1]) \ gone)
            ms == [i \in 1..Len(msgs[u]) |->
                      IF i \in gone THEN Deleted ELSE msgs[u][i]]
        IN  /\ faults + f <= MaxFaults
            /\ faults' = faults + f
            /\ Commit(u, fsm[u], data[u], NoRender(users, ms), txs, debts,
                      Obs(u, "clear_cb", <<>>, p[2], p[1], 1, FALSE,
                          "cleared", NoRender(users, ms)))

\* summary_cb, for the press <<mid, tok>> arriving in month mk
SummaryCbOn(u, mid, tok, mk) ==
    CbRender(u, "summary_cb", mid, tok, users, fsm[u], data[u],
             SummaryScreen(TxCount(txs, u), GetMonthSummary(txs, u, mk)),
             debts, "")

\* summary_cb
SummaryCb(u) ==
    \E p \in Presses(u, "summary_cb") :
        SummaryCbOn(u, p[1], p[2], ThisMonth)

\* summary_cb in any of Months
SummaryCbAnyMonth(u) ==
    \E p \in Presses(u, "summary_cb") :
        \E mk \in Months : SummaryCbOn(u, p[1], p[2], mk)

\* How the rate provider behaves while one rates request is served: it
\* answers 200 with a rate, answers with another status, or does not
\* answer within the timeout of session.get.
ProviderModes == {"ok", "bad_status", "timeout"}

\* tracked[:5] of get_rates_for_user
FirstTracked(row) ==
    IF Len(row.tracked_ccy) <= MaxTracked THEN row.tracked_ccy
    ELSE SubSeq(row.tracked_ccy, 1, MaxTracked)

\* The quotes get_rate asks the provider for: not the base itself and not
\* freshly cached.
Fetched(row, cached) == Range(FirstTracked(row)) \ ({row.base_ccy} \cup cached)

\* get_rates_for_user: the quotes of the pairs it returns, or raised for
\* the exception of session.get, which neither get_rate nor
\* get_rates_for_user catches.
GetRatesForUser(row, fx, cached) ==
    IF fx = "timeout" /\ Fetched(row, cached) # {}
    THEN [raised |-> TRUE, pairs |-> {}]
    ELSE [raised |-> FALSE,
          pairs |-> {q \in Range(FirstTracked(row)) :
                        \/ q = row.base_ccy
                        \/ q \in cached
                        \/ fx = "ok"}]

\* rates_cb seeing the provider in mode fx and the cache rows `cached`
RatesCbOn(u, mid, tok, fx, cached) ==
    LET us1 == GetOrCreateUser(users, u)
        got == GetRatesForUser(us1[u], fx, cached)
        met(o) == [o EXCEPT !.fx = fx, !.cached = cached]
    IN  IF got.raised
        THEN /\ Commit(u, fsm[u], data[u], Raised(us1, msgs[u]), txs, debts,
                       met(Obs(u, "rates_cb", <<>>, tok, mid, 0, FALSE, "",
                               Raised(us1, msgs[u]))))
             /\ UNCHANGED faults
        ELSE IF got.pairs = {}
        THEN /\ Commit(u, fsm[u], data[u], NoRender(us1, msgs[u]), txs,
                       debts,
                       met(Obs(u, "rates_cb", <<>>, tok, mid, 1, FALSE,
                               "rates_failed", NoRender(us1, msgs[u]))))
             /\ UNCHANGED faults
        ELSE \E ok1 \in BOOLEAN, ok2 \in BOOLEAN :
               LET c == RatesScreen(us1[u], got.pairs)
                   r == EditAnchorFromCb(us1, msgs[u], u, mid, c, ok1, ok2)
               IN  /\ CbOutcome(us1, msgs[u], u, mid, c, ok1, ok2)
                   /\ Commit(u, fsm[u], data[u], r, txs, debts,
                             met(Obs(u, "rates_cb", <<>>, tok, mid, Acked(r),
                                     FALSE, "", r)))

\* rates_cb
RatesCb(u) ==
    \E p \in Presses(u, "rates_cb") :
      \E fx \in ProviderModes :
        \E cached \in SUBSET Range(GetOrCreateUser(users, u)[u].tracked_ccy) :
            RatesCbOn(u, p[1], p[2], fx, cached)

\* history_cb
HistoryCb(u) ==
    \E p \in Presses(u, "history_cb") :
        LET page == IF p[2].num > 1 THEN p[2].num ELSE 1
            cnt == TxCount(txs, u)
            rows == ListTransactions(cnt, page, PER_PAGE + 1)
            has_more == RowsOnPage(cnt, page, PER_PAGE + 1) > PER_PAGE
        IN  CbRender(u, "history_cb", p[1], p[2], users, fsm[u], data[u],
                     TableScreen("history", page, cnt, has_more,
                                 FirstRows(rows, PER_PAGE)),
                     debts, "")

\* expense_add
ExpenseAdd(u) ==
    \E p \in Presses(u, "expense_add") :
        CbRender(u, "expense_add", p[1], p[2], users, "tx_waiting_amount",
                 UpdateData(data[u], "tx_type", "expense"),
                 Scr("ask_expense", "cancel"), debts, "")

\* income_add
IncomeAdd(u) ==
    \E p \in Presses(u, "income_add") :
        CbRender(u, "income_add", p[1], p[2], users, "tx_waiting_amount",
                 UpdateData(data[u], "tx_type", "income"),
                 Scr("ask_income", "cancel"), debts, "")

\* The common shape of a message handler that deletes the incoming message
\* and renders c through reply_or_edit_anchor.
MsgRender(u, h, text, us, st, dt, c, txs2, debts2) ==
    \E ok \in BOOLEAN :
        LET r == ReplyOrEditAnchor(us, msgs[u], u, c, ok)
        IN  /\ MsgOutcome(us, msgs[u], u, c, ok)
            /\ Commit(u, st, dt, r, txs2, debts2,
                      Obs(u, h, text, NoTok, 0, 0, TRUE, "", r))

\* A message handler that raises (KeyError) after deleting the message.
MsgRaise(u, h, text, us) ==
    /\ Commit(u, fsm[u], data[u], Raised(us, msgs[u]), txs, debts,
              Obs(u, h, text, NoTok, 0, 0, TRUE, "", Raised(us, msgs[u])))
    /\ UNCHANGED faults

\* tx_amount on the message `text`
TxAmountOn(u, text) ==
    LET amount == ParseAmount(text)
        dt == UpdateData(data[u], "amount", amount)
        for_income == "tx_type" \in dt.has /\ dt.tx_type = "income"
    IN  /\ MsgEvent(u, text, "tx_amount")
        /\ IF amount = FloatError
           THEN MsgRender(u, "tx_amount", text, users, fsm[u], data[u],
                          Scr("bad_amount", "cancel"), txs, debts)
           ELSE MsgRender(u, "tx_amount", text, users, "tx_waiting_category",
                          dt,
                          Scr("ask_category",
                              IF for_income THEN "cat_income"
                              ELSE "cat_expense"),
                          txs, debts)

\* tx_amount
TxAmount(u) == \E text \in AmountTexts : TxAmountOn(u, text)

\* tx_category_wrong_cb that takes the press as tx_category does: the
\* category is stored and the flow moves on to the note.
TxCategoryWrongCbStores(u) ==
    \E p \in Presses(u, "tx_category_wrong_cb") :
        CbRender(u, "tx_category_wrong_cb", p[1], p[2], users,
                 "tx_waiting_note", UpdateData(data[u], "category", p[2].arg),
                 Scr("cat_wrong", "cancel"), debts, "")

\* tx_category_wrong_cb
TxCategoryWrongCb(u) ==
    \E p \in Presses(u, "tx_category_wrong_cb") :
        CbRender(u, "tx_category_wrong_cb", p[1], p[2], users, fsm[u],
                 data[u], Scr("cat_wrong", "cancel"), debts, "")

\* tx_category without the skip sentinel's translation: the sentinel itself
\* is stored as the category.
TxCategoryRaw(u) ==
    \E p \in Presses(u, "tx_category") :
        CbRender(u, "tx_category", p[1], p[2], users, "tx_waiting_note",
                 UpdateData(data[u], "category", p[2].arg),
                 Scr("ask_note_tx", "cancel"), debts, "")

\* tx_category
TxCategory(u) ==
    \E p \in Presses(u, "tx_category") :
        LET cat == IF p[2].arg = "__skip__" THEN "Other" ELSE p[2].arg
        IN  CbRender(u, "tx_category", p[1], p[2], users, "tx_waiting_note",
                     UpdateData(data[u], "category", cat),
                     Scr("ask_note_tx", "cancel"), debts, "")

\* tx_note on the message `text`, while the tables hold fewer than cap rows
TxNoteOn(u, text, cap) ==
    LET d == data[u]
        us1 == GetOrCreateUser(users, u)
        txs2 == AddTransaction(txs, u, d.tx_type, d.amount,
                               us1[u].base_ccy, d.category, NoteOf(text))
    IN  /\ MsgEvent(u, text, "tx_note")
        /\ IF {"tx_type", "amount", "category"} \subseteq d.has
           THEN /\ Len(txs) + Len(debts) < cap
                /\ MsgRender(u, "tx_note", text, us1, StateClear.state,
                             StateClear.data,
                             TableScreen("main", 1, TxCount(txs2, u), FALSE,
                                 ListTransactions(TxCount(txs2, u), 1,
                                                  PER_PAGE)),
                             txs2, debts)
           ELSE MsgRaise(u, "tx_note", text, users)

\* tx_note
TxNote(u) == \E text \in NoteTexts : TxNoteOn(u, text, MaxRows)

\* debts_cb
DebtsCb(u) ==
    \E p \in Presses(u, "debts_cb") :
        CbRender(u, "debts_cb", p[1], p[2], users, fsm[u], data[u],
                 DebtsScreen(ListDebts(debts, u)), debts, "")

\* debt_add_start
DebtAddStart(u) ==
    \E p \in Presses(u, "debt_add_start") :
        CbRender(u, "debt_add_start", p[1], p[2], users,
                 "debt_waiting_direction", data[u], Scr("ask_dir", "dir"),
                 debts, "")

\* debt_dir
DebtDir(u) ==
    \E p \in Presses(u, "debt_dir") :
        CbRender(u, "debt_dir", p[1], p[2], users,
                 "debt_waiting_counterparty",
                 UpdateData(data[u], "direction", p[2].arg),
                 Scr("ask_cp", "cancel"), debts, "")

\* debt_cp
DebtCp(u) ==
    \E text \in FreeTexts :
        /\ MsgEvent(u, text, "debt_cp")
        /\ MsgRender(u, "debt_cp", text, users, "debt_waiting_amount",
                     UpdateData(data[u], "counterparty", Strip(text)),
                     Scr("ask_debt_amount", "cancel"), txs, debts)

\* debt_amount that stores the amount before it validates it.
DebtAmountOnStoresFirst(u, text) ==
    LET amount == ParseAmount(text)
        dt == UpdateData(data[u], "amount", amount)
    IN  /\ MsgEvent(u, text, "debt_amount")
        /\ IF amount = FloatError
           THEN MsgRender(u, "debt_amount", text, users, fsm[u], dt,
                          Scr("bad_amount", "cancel"), txs, debts)
           ELSE MsgRender(u, "debt_amount", text, users, "debt_waiting_note",
                          dt, Scr("ask_note_debt", "cancel"), txs, debts)

\* debt_amount on the message `text`
DebtAmountOn(u, text) ==
    LET amount == ParseAmount(text)
    IN  /\ MsgEvent(u, text, "debt_amount")
        /\ IF amount = FloatError
           THEN MsgRender(u, "debt_amount", text, users, fsm[u], data[u],
                          Scr("bad_amount", "cancel"), txs, debts)
           ELSE MsgRender(u, "debt_amount", text, users, "debt_waiting_note",
                          UpdateData(data[u], "amount", amount),
                          Scr("ask_note_debt", "cancel"), txs, debts)

\* debt_amount
DebtAmount(u) == \E text \in AmountTexts : DebtAmountOn(u, text)

\* debt_note on the message `text`, while the tables hold fewer than cap
\* rows
DebtNoteOn(u, text, cap) ==
    LET d == data[u]
        us1 == GetOrCreateUser(users, u)
        debts2 == AddDebt(debts, u, d.direction, d.counterparty, d.amount,
                          us1[u].base_ccy, NoteOf(text))
    IN  /\ MsgEvent(u, text, "debt_note")
        /\ IF {"direction", "counterparty", "amount"} \subseteq d.has
           THEN /\ Len(txs) + Len(debts) < cap
                /\ MsgRender(u, "debt_note", text, us1, StateClear.state,
                             StateClear.data,
                             DebtsScreen(ListDebts(debts2, u)), txs,
                             debts2)
           ELSE MsgRaise(u, "debt_note", text, us1)

\* debt_note
DebtNote(u) == \E text \in NoteTexts : DebtNoteOn(u, text, MaxRows)

\* debt_close_cb: close_debt raises nothing when no row matches, so the
\* except branch is never taken.
DebtCloseOn(u, mid, tok) ==
    LET debts2 == CloseDebt(debts, u, tok.num)
    IN  CbRender(u, "debt_close_cb", mid, tok, users, fsm[u], data[u],
                 DebtsScreen(ListDebts(debts2, u)), debts2, "closed")

\* debt_close_cb on a close button in the chat
DebtCloseCb(u) ==
    \E p \in Presses(u, "debt_close_cb") : DebtCloseOn(u, p[1], p[2])

\* debt_close_cb on callback data that is on no button of the chat: the
\* data of a callback query is the client's to fill in, so any debt id can
\* arrive, another user's and one that does not exist included.
DebtCloseAnyId(u) ==
    \E mid \in 1..Len(msgs[u]) :
        \E debt_id \in 1..(Len(debts) + 1) :
            /\ msgs[u][mid] # Deleted
            /\ Tok("debt_close", "", debt_id) \notin Buttons(msgs[u][mid])
            /\ DebtCloseOn(u, mid, Tok("debt_close", "", debt_id))

\* settings_cb, for the press <<mid, tok>> handled by h on users table us.
SettingsRender(u, h, mid, tok, us) ==
    LET us1 == GetOrCreateUser(us, u)
    IN  CbRender(u, h, mid, tok, us1, fsm[u], data[u],
                 SettingsScreen(us1[u]), debts, "")

\* settings_cb
SettingsCb(u) ==
    \E p \in Presses(u, "settings_cb") :
        SettingsRender(u, "settings_cb", p[1], p[2], users)

\* set_base_cb
SetBaseCb(u) ==
    \E p \in Presses(u, "set_base_cb") :
        CbRender(u, "set_base_cb", p[1], p[2], users, fsm[u], data[u],
                 Scr("ask_base", "base"), debts, "")

\* base_save
BaseSave(u) ==
    \E p \in Presses(u, "base_save") :
        SettingsRender(u, "base_save", p[1], p[2],
                       SetBaseCcy(users, u, p[2].arg))

\* set_tracked_cb, for the press <<mid, tok>> handled by h on table us.
TrackedRender(u, h, mid, tok, us) ==
    LET us1 == GetOrCreateUser(us, u)
    IN  CbRender(u, h, mid, tok, us1, fsm[u], data[u], TrackedScreen(us1[u]),
                 debts, "")

\* set_tracked_cb
SetTrackedCb(u) ==
    \E p \in Presses(u, "set_tracked_cb") :
        TrackedRender(u, "set_tracked_cb", p[1], p[2], users)

\* track_toggle without the check of len(cur): the currency is added and
\* the list is cut to five by update_user_settings.
TrackToggleOnNoLimit(u, mid, tok) ==
    LET c == tok.arg
        us1 == GetOrCreateUser(users, u)
        cur == Range(us1[u].tracked_ccy)
    IN  IF c \in cur
        THEN TrackedRender(u, "track_toggle", mid, tok,
                           SetTrackedCcy(us1, u, ListOf(cur \ {c})))
        ELSE TrackedRender(u, "track_toggle", mid, tok,
                           SetTrackedCcy(us1, u, ListOf(cur \cup {c})))

\* track_toggle, for the press <<mid, tok>>
TrackToggleOn(u, mid, tok) ==
    LET c == tok.arg
        us1 == GetOrCreateUser(users, u)
        cur == Range(us1[u].tracked_ccy)
    IN  IF c \in cur
        THEN TrackedRender(u, "track_toggle", mid, tok,
                           SetTrackedCcy(us1, u, ListOf(cur \ {c})))
        ELSE IF Cardinality(cur) >= MaxTracked
        THEN CbAnswer(u, "track_toggle", mid, tok, us1, msgs[u], "max5")
        ELSE TrackedRender(u, "track_toggle", mid, tok,
                           SetTrackedCcy(us1, u, ListOf(cur \cup {c})))

\* track_toggle on the currencies of TrackInputs
TrackToggle(u) ==
    \E p \in Presses(u, "track_toggle") : TrackToggleOn(u, p[1], p[2])

\* The currencies toggled where the limit of five is to be reached: with
\* the two defaults, three of them make five and the fourth is one too many.
TrackInputsWide == {"EUR", "CNY", "GBP", "BTC"}

\* track_toggle on the currencies of TrackInputsWide
TrackToggleWide(u) ==
    \E mid \in 1..Len(msgs[u]) :
        \E tok \in Buttons(msgs[u][mid]) :
            /\ CbRouted(u, mid, tok, "track_toggle")
            /\ tok.arg \in TrackInputsWide
            /\ TrackToggleOn(u, mid, tok)

\* track_save
TrackSave(u) ==
    \E p \in Presses(u, "track_save") :
        SettingsRender(u, "track_save", p[1], p[2], users)

\* warn_choose_option_tx that takes the text for the category.
WarnChooseOptionTxConsumes(u) ==
    \E text \in FreeTexts :
        /\ MsgEvent(u, text, "warn_choose_option_tx")
        /\ MsgRender(u, "warn_choose_option_tx", text, users,
                     "tx_waiting_note",
                     UpdateData(data[u], "category", "Other"),
                     Scr("warn", "cancel"), txs, debts)

\* warn_choose_option_tx
WarnChooseOptionTx(u) ==
    \E text \in FreeTexts :
        /\ MsgEvent(u, text, "warn_choose_option_tx")
        /\ MsgRender(u, "warn_choose_option_tx", text, users, fsm[u], data[u],
                     Scr("warn", "cancel"), txs, debts)

\* warn_choose_option_debt_dir
WarnChooseOptionDebtDir(u) ==
    \E text \in FreeTexts :
        /\ MsgEvent(u, text, "warn_choose_option_debt_dir")
        /\ MsgRender(u, "warn_choose_option_debt_dir", text, users, fsm[u],
                     data[u], Scr("warn", "cancel"), txs, debts)

\* generic_warn with the keyboard of the two fallbacks above it.
GenericWarnCancelKb(u) ==
    \E text \in FreeTexts :
        /\ MsgEvent(u, text, "generic_warn")
        /\ MsgRender(u, "generic_warn", text, users, fsm[u], data[u],
                     Scr("warn", "cancel"), txs, debts)

\* generic_warn
GenericWarn(u) ==
    \E text \in FreeTexts :
        /\ MsgEvent(u, text, "generic_warn")
        /\ MsgRender(u, "generic_warn", text, users, fsm[u], data[u],
                     Scr("warn", "main"), txs, debts)

\* A press no handler's filter matches: nothing runs, nothing is answered.
Unhandled(u) ==
    \E p \in Presses(u, "unhandled") :
        /\ Commit(u, fsm[u], data[u], NoRender(users, msgs[u]), txs, debts,
                  Obs(u, "unhandled", <<>>, p[2], p[1], 0, FALSE, "",
                      NoRender(users, msgs[u])))
        /\ UNCHANGED faults

\* The user deletes one of the bot's messages from the chat.
UserDeletes(u) ==
    \E mid \in 1..Len(msgs[u]) :
        /\ msgs[u][mid] # Deleted
        /\ UNCHANGED faults
        /\ Commit(u, fsm[u], data[u],
                  NoRender(users, [msgs[u] EXCEPT ![mid] = Deleted]), txs,
                  debts,
                  Obs(u, "user_deletes", <<>>, NoTok, mid, 0, FALSE, "",
                      NoRender(users, msgs[u])))

\* ------------------------------------------------------ the specification
Init ==
    /\ fsm = [u \in Users |-> "idle"]
    /\ data = [u \in Users |-> NoData]
    /\ users = [u \in Users |-> NoRow]
    /\ msgs = [u \in Users |-> <<>>]
    /\ txs = <<>>
    /\ debts = <<>>
    /\ last = Observed(0, "idle", "init", <<>>, NoTok, 0, FALSE, "",
                       NoRender(users, <<>>))
    /\ faults = 0
    /\ sup = SupRunning
    /\ tasks = NoTasks

\* The users who send events.
Active == {1}

\* The conversation core: /start, home and cancel, clear, the transaction
\* flow, the debt flow with the debt list it starts from, the free-text
\* fallbacks, presses no handler takes, and the user deleting messages.

Next ==
    \E u \in Active :
        \/ StartCmd(u)
        \/ HomeCb(u)
        \/ CancelCb(u)
        \/ ClearCb(u)
        \/ ExpenseAdd(u)
        \/ IncomeAdd(u)
        \/ TxAmount(u)
        \/ TxCategoryWrongCb(u)
        \/ TxCategory(u)
        \/ TxNote(u)
        \/ DebtsCb(u)
        \/ DebtAddStart(u)
        \/ DebtDir(u)
        \/ DebtCp(u)
        \/ DebtAmount(u)
        \/ DebtNote(u)
        \/ WarnChooseOptionTx(u)
        \/ WarnChooseOptionDebtDir(u)
        \/ GenericWarn(u)
        \/ Unhandled(u)
        \/ UserDeletes(u)

Spec == Init /\ [][Next]_vars

\* The menu screens: /start, home, clear, summary, rates, history, the debt
\* list, the settings with base and tracked currencies, the idle fallback,
\* presses no handler takes, and the user deleting messages.
NextMenu ==
    \E u \in Active :
        \/ StartCmd(u)
        \/ HomeCb(u)
        \/ ClearCb(u)
        \/ SummaryCb(u)
        \/ RatesCb(u)
        \/ HistoryCb(u)
        \/ DebtsCb(u)
        \/ SettingsCb(u)
        \/ SetBaseCb(u)
        \/ BaseSave(u)
        \/ SetTrackedCb(u)
        \/ TrackToggle(u)
        \/ TrackSave(u)
        \/ GenericWarn(u)
        \/ Unhandled(u)
        \/ UserDeletes(u)

SpecMenu == Init /\ [][NextMenu]_vars

\* The tracked currencies: /start, the settings screen, the selection
\* screen with the toggles of TrackInputsWide, save, and cancel.
NextTracked ==
    \E u \in Active :
        \/ StartCmd(u)
        \/ SettingsCb(u)
        \/ SetTrackedCb(u)
        \/ TrackToggleWide(u)
        \/ TrackSave(u)
        \/ CancelCb(u)

SpecTracked == Init /\ [][NextTracked]_vars

\* ------------------------------------------------------- the debts table
\* Most rows of table debts where debts are closed (SpecDebts).
MaxDebts == 2

\* A row of table debts as the debt flow inserts it, then open or closed.
DebtRow(u, status) ==
    [AddDebt(<<>>, u, "to_me", <<"a", "b", "c">>, Amount250_50,
             DEFAULT_BASE_CCY, <<>>)[1] EXCEPT !.status = status]

DebtTables ==
    UNION {[1..n -> {DebtRow(u, st) : u \in Users, st \in {"open", "closed"}}]
              : n \in 0..MaxDebts}

\* Both users have been through /start, and through the debt flow and the
\* debt list as often as the table tells; each chat holds the menu that
\* /start left in the anchor message.
InitDebts ==
    /\ fsm = [u \in Users |-> "idle"]
    /\ data = [u \in Users |-> NoData]
    /\ users = [u \in Users |->
                   SetAnchor(GetOrCreateUser([v \in Users |-> NoRow], u),
                             u, 1)[u]]
    /\ msgs = [u \in Users |-> <<Scr("start", "main")>>]
    /\ txs = <<>>
    /\ debts \in DebtTables
    /\ last = Observed(0, "idle", "init", <<>>, NoTok, 0, FALSE, "",
                       NoRender(users, <<>>))
    /\ faults = 0
    /\ sup = SupRunning
    /\ tasks = NoTasks

\* /start, home, the debt list, closing a debt from a button or with any
\* id, and presses no handler takes.
NextDebts ==
    \E u \in Active :
        \/ StartCmd(u)
        \/ HomeCb(u)
        \/ DebtsCb(u)
        \/ DebtCloseCb(u)
        \/ DebtCloseAnyId(u)
        \/ Unhandled(u)

SpecDebts == InitDebts /\ [][NextDebts]_vars

\* ------------------------------------------------------ the month summary
\* Most rows of table transactions where the summary is computed
\* (SpecSummary).
MaxTx == 3

\* The amounts of the rows: 5, 2.5, inf (which the amount step accepts)
\* and NULL (a nan as stored).
SummaryAmounts == {Num(FALSE, 5, 1), Num(FALSE, 25, 10), Inf(FALSE), SqlNull}

\* A row of table transactions as add_transaction inserted it in month mk.
TxRow(u, typ, amount, mk) ==
    [AddTransaction(<<>>, u, typ, amount, DEFAULT_BASE_CCY, "Other", <<>>)[1]
        EXCEPT !.month_key = mk]

\* The rows drawn: every kind, amount and month for the user who asks for
\* the summary, and rows of this month with the amount 5 for the others.
TxRows ==
    {TxRow(u, typ, a, mk) :
        u \in Active, typ \in {"income", "expense"},
        a \in SummaryAmounts, mk \in Months}
    \cup {TxRow(u, typ, Num(FALSE, 5, 1), ThisMonth) :
              u \in Users \ Active, typ \in {"income", "expense"}}

TxTables == UNION {[1..n -> TxRows] : n \in 0..MaxTx}

\* The users have been through /start and through the transaction flow as
\* often as the table tells; each chat holds the menu that /start left in
\* the anchor message.
InitSummary ==
    /\ fsm = [u \in Users |-> "idle"]
    /\ data = [u \in Users |-> NoData]
    /\ users = [u \in Users |->
                   SetAnchor(GetOrCreateUser([v \in Users |-> NoRow], u),
                             u, 1)[u]]
    /\ msgs = [u \in Users |-> <<Scr("start", "main")>>]
    /\ txs \in TxTables
    /\ debts = <<>>
    /\ last = Observed(0, "idle", "init", <<>>, NoTok, 0, FALSE, "",
                       NoRender(users, <<>>))
    /\ faults = 0
    /\ sup = SupRunning
    /\ tasks = NoTasks

\* The summary is requested, in this month or the one before.
NextSummary == \E u \in Active : SummaryCbAnyMonth(u)

SpecSummary == InitSummary /\ [][NextSummary]_vars

\* --------------------------------------- transactions and the base currency
\* Most rows of the two tables together where transactions are followed
\* through later events (SpecKept).
MaxRowsKept == 2

\* tx_note, up to MaxRowsKept rows
TxNoteKept(u) == \E text \in NoteTexts : TxNoteOn(u, text, MaxRowsKept)

\* User 1 has sent /start twice, which left two menu messages, has
\* recorded a debt, and has then gone through 'add expense', an amount and
\* a category on the second menu: the note is awaited.
InitKept ==
    /\ fsm = [u \in Users |-> IF u = 1 THEN "tx_waiting_note" ELSE "idle"]
    /\ data = [u \in Users |->
                  IF u = 1
                  THEN UpdateData(UpdateData(UpdateData(NoData,
                           "tx_type", "expense"), "amount", Amount250_50),
                           "category", "Food")
                  ELSE NoData]
    /\ users = SetAnchor(GetOrCreateUser([u \in Users |-> NoRow], 1), 1, 2)
    /\ msgs = [u \in Users |->
                  IF u = 1 THEN <<Scr("start", "main"),
                                  Scr("ask_note_tx", "cancel")>>
                  ELSE <<>>]
    /\ txs = <<>>
    /\ debts = <<DebtRow(1, "open")>>
    /\ last = Observed(0, "idle", "init", <<>>, NoTok, 0, FALSE, "",
                       NoRender(users, <<>>))
    /\ faults = 0
    /\ sup = SupRunning
    /\ tasks = NoTasks

\* The note that persists the transaction, and what can follow or come
\* before it: the base currency is changed, cancel, home, /start, clear,
\* another transaction flow, the debt list and the closing of a debt.
NextKept ==
    \E u \in Active :
        \/ TxNoteKept(u)
        \/ SettingsCb(u)
        \/ SetBaseCb(u)
        \/ BaseSave(u)
        \/ StartCmd(u)
        \/ HomeCb(u)
        \/ CancelCb(u)
        \/ ClearCb(u)
        \/ ExpenseAdd(u)
        \/ TxAmount(u)
        \/ TxCategory(u)
        \/ DebtsCb(u)
        \/ DebtCloseCb(u)

SpecKept == InitKept /\ [][NextKept]_vars

\* -------------------------------------------------------------- the history
\* Most rows of table transactions where the history is paged
\* (SpecHistory): more than one page of PER_PAGE rows.
MaxHistory == 10

\* User 1 has recorded up to MaxHistory expenses this month and has sent
\* /start, which left the menu in the anchor message.
InitHistory ==
    /\ fsm = [u \in Users |-> "idle"]
    /\ data = [u \in Users |-> NoData]
    /\ users = SetAnchor(GetOrCreateUser([u \in Users |-> NoRow], 1), 1, 1)
    /\ msgs = [u \in Users |->
                  IF u = 1 THEN <<Scr("start", "main")>> ELSE <<>>]
    /\ \E n \in 0..MaxHistory :
          txs = [i \in 1..n |->
                    TxRow(1, "expense", Num(FALSE, 5, 1), ThisMonth)]
    /\ debts = <<>>
    /\ last = Observed(0, "idle", "init", <<>>, NoTok, 0, FALSE, "",
                       NoRender(users, <<>>))
    /\ faults = 0
    /\ sup = SupRunning
    /\ tasks = NoTasks

\* The history with its page buttons, home, /start, and the user deleting
\* messages.
NextHistory ==
    \E u \in Active :
        \/ HistoryCb(u)
        \/ HomeCb(u)
        \/ StartCmd(u)
        \/ UserDeletes(u)

SpecHistory == InitHistory /\ [][NextHistory]_vars

\* ------------------------------------------------------------ two users
\* Most rows of the two tables together where one user acts beside
\* another's data (SpecIsolation).
MaxRowsIsolation == 4

\* tx_note with room for one more row of the acting user.
TxNoteBeside(u) ==
    \E text \in NoteTexts : TxNoteOn(u, text, MaxRowsIsolation)

\* User 2 has used the bot: /start, one expense, one debt that is open,
\* and is now in the debt flow, asked for the amount, with direction and
\* counterparty in the partial record.  User 1 has sent /start, recorded
\* one debt, which is open, and is back at the menu in the anchor message.
InitIsolation ==
    /\ fsm = [u \in Users |->
                 IF u = 2 THEN "debt_waiting_amount" ELSE "idle"]
    /\ data = [u \in Users |->
                  IF u = 2
                  THEN UpdateData(UpdateData(NoData, "direction", "to_me"),
                                  "counterparty", <<"a", "b", "c">>)
                  ELSE NoData]
    /\ users = [u \in Users |->
                   SetAnchor(GetOrCreateUser([v \in Users |-> NoRow], u),
                             u, 1)[u]]
    /\ msgs = [u \in Users |->
                  IF u = 2 THEN <<Scr("ask_debt_amount", "cancel")>>
                  ELSE <<Scr("start", "main")>>]
    /\ txs = <<TxRow(2, "expense", Amount250_50, ThisMonth)>>
    /\ debts = <<DebtRow(2, "open"), DebtRow(1, "open")>>
    /\ last = Observed(0, "idle", "init", <<>>, NoTok, 0, FALSE, "",
                       NoRender(users, <<>>))
    /\ faults = 0
    /\ sup = SupRunning
    /\ tasks = NoTasks

\* The handlers that write conversation state, settings, transactions or
\* debts (the transaction flow, the closing of a debt, the base
\* currency), with the screens that lead to them.
NextIsolation ==
    \E u \in Active :
        \/ StartCmd(u)
        \/ CancelCb(u)
        \/ ExpenseAdd(u)
        \/ TxAmount(u)
        \/ TxCategory(u)
        \/ TxNoteBeside(u)
        \/ DebtsCb(u)
        \/ DebtCloseCb(u)
        \/ DebtCloseAnyId(u)
        \/ SettingsCb(u)
        \/ SetBaseCb(u)
        \/ BaseSave(u)

SpecIsolation == InitIsolation /\ [][NextIsolation]_vars

\* --------------------------------------------- menu actions within a flow
\* The transaction flow up to its category step, with the menu actions
\* that render the main-menu keyboard (/start, cancel, summary); summary
\* can be pressed on an older menu message while the flow is in progress.
NextFlowMenu ==
    \E u \in Active :
        \/ StartCmd(u)
        \/ CancelCb(u)
        \/ SummaryCb(u)
        \/ ExpenseAdd(u)
        \/ TxAmount(u)
        \/ TxCategory(u)

SpecFlowMenu == Init /\ [][NextFlowMenu]_vars

\* ------------------------------------------------- the amount step alone
\* Every text of at most MaxLen characters; the empty text is also what
\* (m.text or "") makes of a message without text.
ParseTexts == UNION {[1..n -> Chars] : n \in 0..MaxLen}

\* FSM data on entering waiting_amount: after 'add expense' in the
\* transaction flow, after direction and counterparty in the debt flow.
DataAtAmount(st) ==
    IF st = "tx_waiting_amount" THEN UpdateData(NoData, "tx_type", "expense")
    ELSE UpdateData(UpdateData(NoData, "direction", "to_me"),
                    "counterparty", <<"a", "b", "c">>)

\* The anchor on entering waiting_amount: the prompt for the amount.
PromptAtAmount(st) ==
    IF st = "tx_waiting_amount" THEN Scr("ask_expense", "cancel")
    ELSE Scr("ask_debt_amount", "cancel")

\* User 1 is in one of the two waiting_amount states, as /start and the
\* flow's first steps leave them, and is about to send some text.
InitParse ==
    \E text \in ParseTexts :
      \E st \in {"tx_waiting_amount", "debt_waiting_amount"} :
        /\ fsm = [u \in Users |-> IF u = 1 THEN st ELSE "idle"]
        /\ data = [u \in Users |-> IF u = 1 THEN DataAtAmount(st) ELSE NoData]
        /\ users = SetAnchor(GetOrCreateUser([u \in Users |-> NoRow], 1), 1, 1)
        /\ msgs = [u \in Users |->
                      IF u = 1 THEN <<PromptAtAmount(st)>> ELSE <<>>]
        /\ txs = <<>>
        /\ debts = <<>>
        /\ last = Observed(1, st, "pending", text, NoTok, 0, FALSE, "",
                           NoRender(users, msgs[1]))
        /\ faults = 0
        /\ sup = SupRunning
        /\ tasks = NoTasks

\* The pending text is sent and the waiting_amount handler of the user's
\* flow takes it.
SendToTxAmount == last.h = "pending" /\ TxAmountOn(1, last.text)
SendToDebtAmount == last.h = "pending" /\ DebtAmountOn(1, last.text)

NextParse == SendToTxAmount \/ SendToDebtAmount

SpecParse == InitParse /\ [][NextParse]_vars

\* -------------------------------------------------------------- properties
\* In a step of Next, last' tells which handler ran, for whom and on what.
\* The conversation and the tables are left as they were.
NothingPersisted == txs' = txs /\ debts' = debts
ConversationKept(u) == fsm'[u] = fsm[u] /\ data'[u] = data[u]
ConversationCleared(u) == fsm'[u] = "idle" /\ data'[u] = NoData

\* A text message other than the /start command was handled.
FreeTextHandled ==
    /\ last'.tok = NoTok
    /\ last'.h \notin {"user_deletes", "start_cmd"}

\* C1.  Transaction flow ordering.  A step changes table transactions only
\* when it is tx_note handling a message in waiting_note of the transaction
\* flow; it then appends exactly one row, which carries the kind, amount
\* and category of the partial record, and leaves the user idle with an
\* empty partial record; every tx_note that completes appends a row.
\* waiting_note is entered only from waiting_category by a category press,
\* which stores the category ("Other" for skip); waiting_category only from
\* waiting_amount by an accepted amount, which stores the parsed positive
\* amount; waiting_amount only by 'add expense' or 'add income', which
\* store the kind.  Between these steps the kind, amount and category of
\* the partial record change only by being cleared.
C1_Step ==
    LET u == last'.u
        h == last'.h
    IN  /\ txs' # txs =>
              /\ h = "tx_note" /\ fsm[u] = "tx_waiting_note"
              /\ {"tx_type", "amount", "category"} \subseteq data[u].has
              /\ Len(txs') = Len(txs) + 1
              /\ SubSeq(txs', 1, Len(txs)) = txs
              /\ txs'[Len(txs')].user_id = u
              /\ txs'[Len(txs')].type = data[u].tx_type
              /\ txs'[Len(txs')].amount = data[u].amount
              /\ txs'[Len(txs')].category = data[u].category
              /\ ConversationCleared(u)
        /\ h = "tx_note" =>
              /\ last'.from = "tx_waiting_note"
              /\ ~last'.raised
              /\ Len(txs') = Len(txs) + 1
        /\ \A v \in Users :
              /\ (fsm'[v] = "tx_waiting_note" /\ fsm[v] # "tx_waiting_note") =>
                    /\ v = u /\ h = "tx_category"
                    /\ fsm[v] = "tx_waiting_category"
              /\ (fsm'[v] = "tx_waiting_category"
                      /\ fsm[v] # "tx_waiting_category") =>
                    /\ v = u /\ h = "tx_amount"
                    /\ fsm[v] = "tx_waiting_amount"
              /\ (fsm'[v] = "tx_waiting_amount"
                      /\ fsm[v] # "tx_waiting_amount") =>
                    v = u /\ h \in {"expense_add", "income_add"}
              /\ (data'[v].tx_type # data[v].tx_type
                      /\ data'[v] # NoData) =>
                    v = u /\ h \in {"expense_add", "income_add"}
              /\ (data'[v].amount # data[v].amount /\ data'[v] # NoData) =>
                    v = u /\ h \in {"tx_amount", "debt_amount"}
              /\ (data'[v].category # data[v].category
                      /\ data'[v] # NoData) =>
                    v = u /\ h = "tx_category"
        /\ h = "expense_add" =>
              /\ fsm'[u] = "tx_waiting_amount"
              /\ data'[u] = UpdateData(data[u], "tx_type", "expense")
        /\ h = "income_add" =>
              /\ fsm'[u] = "tx_waiting_amount"
              /\ data'[u] = UpdateData(data[u], "tx_type", "income")
        /\ (h = "tx_amount" /\ fsm'[u] # fsm[u]) =>
              /\ fsm'[u] = "tx_waiting_category"
              /\ data'[u].amount.kind = "num"
              /\ ~data'[u].amount.neg /\ data'[u].amount.num > 0
              /\ last'.text = <<"2", "5", "0", ".", "5", "0">>
                    => data'[u].amount = Amount250_50
              /\ data'[u] = UpdateData(data[u], "amount", data'[u].amount)
        /\ (h = "tx_amount" /\ last'.text = <<"2", "5", "0", ".", "5", "0">>)
              => fsm'[u] = "tx_waiting_category"
        /\ h = "tx_category" =>
              /\ fsm'[u] = "tx_waiting_note"
              /\ data'[u] = UpdateData(data[u], "category",
                                       IF last'.tok.arg = "__skip__"
                                       THEN "Other" ELSE last'.tok.arg)

C2_Step ==
    LET u == last'.u
        h == last'.h
    IN  /\ debts' # debts =>
              /\ h = "debt_note" /\ fsm[u] = "debt_waiting_note"
              /\ {"direction", "counterparty", "amount"} \subseteq data[u].has
              /\ Len(debts') = Len(debts) + 1
              /\ SubSeq(debts', 1, Len(debts)) = debts
              /\ debts'[Len(debts')].user_id = u
              /\ debts'[Len(debts')].status = "open"
              /\ debts'[Len(debts')].direction = data[u].direction
              /\ debts'[Len(debts')].counterparty = data[u].counterparty
              /\ debts'[Len(debts')].amount = data[u].amount
              /\ ConversationCleared(u)
        /\ h = "debt_note" =>
              /\ last'.from = "debt_waiting_note"
              /\ ~last'.raised
              /\ Len(debts') = Len(debts) + 1
        /\ \A v \in Users :
              /\ (fsm'[v] = "debt_waiting_note"
                      /\ fsm[v] # "debt_waiting_note") =>
                    /\ v = u /\ h = "debt_amount"
                    /\ fsm[v] = "debt_waiting_amount"
              /\ (fsm'[v] = "debt_waiting_amount"
                      /\ fsm[v] # "debt_waiting_amount") =>
                    /\ v = u /\ h = "debt_cp"
                    /\ fsm[v] = "debt_waiting_counterparty"
              /\ (fsm'[v] = "debt_waiting_counterparty"
                      /\ fsm[v] # "debt_waiting_counterparty") =>
                    /\ v = u /\ h = "debt_dir"
                    /\ fsm[v] = "debt_waiting_direction"
              /\ (fsm'[v] = "debt_waiting_direction"
                      /\ fsm[v] # "debt_waiting_direction") =>
                    v = u /\ h = "debt_add_start"
              /\ (data'[v].direction # data[v].direction
                      /\ data'[v] # NoData) =>
                    v = u /\ h = "debt_dir"
              /\ (data'[v].counterparty # data[v].counterparty
                      /\ data'[v] # NoData) =>
                    v = u /\ h = "debt_cp"
              /\ (data'[v].amount # data[v].amount /\ data'[v] # NoData) =>
                    v = u /\ h \in {"tx_amount", "debt_amount"}
        /\ h = "debt_add_start" =>
              fsm'[u] = "debt_waiting_direction" /\ data'[u] = data[u]
        /\ h = "debt_dir" =>
              /\ fsm'[u] = "debt_waiting_counterparty"
              /\ data'[u] = UpdateData(data[u], "direction", last'.tok.arg)
        /\ h = "debt_cp" =>
              /\ fsm'[u] = "debt_waiting_amount"
              /\ data'[u] = UpdateData(data[u], "counterparty", last'.text)
        /\ (h = "debt_amount" /\ fsm'[u] # fsm[u]) =>
              /\ fsm'[u] = "debt_waiting_note"
              /\ data'[u].amount.kind = "num"
              /\ ~data'[u].amount.neg /\ data'[u].amount.num > 0
              /\ data'[u] = UpdateData(data[u], "amount", data'[u].amount)

C3_Step ==
    LET u == last'.u
    IN  last'.h \in {"home_cb", "cancel_cb"} =>
            /\ last'.from \in States
            /\ ConversationCleared(u)
            /\ NothingPersisted
            /\ last.h \in {"home_cb", "cancel_cb"} => ConversationKept(u)

C3_CancelHomeIdempotent == [][C3_Step]_vars

\* A 'cancel' pressed inside a flow whose screen edit failed and raised.
C3_Witness ==
    /\ last.h = "cancel_cb" /\ last.from \in TxStates \cup DebtStates
    /\ last.raised /\ last.tried # NoAnchor
    /\ fsm[1] = "idle" /\ data[1] = NoData

\* C4.  Rejected amount.  A step in which tx_amount or debt_amount takes a
\* text it rejects (not a number, or not positive) was taken in a
\* waiting_amount state, leaves the conversation state and the partial
\* record as they were, changes neither table, tries to delete the input
\* message, and renders the error notice with the cancel keyboard into the
\* chat without raising.
C4_Step ==
    LET u == last'.u
    IN  (last'.h \in {"tx_amount", "debt_amount"}
             /\ ParseAmount(last'.text) = FloatError) =>
            /\ last'.from \in {"tx_waiting_amount", "debt_waiting_amount"}
            /\ ConversationKept(u)
            /\ NothingPersisted
            /\ last'.del
            /\ ~last'.raised /\ last'.via \in {"edit", "send"}
            /\ last'.out = Scr("bad_amount", "cancel")
            /\ msgs'[u][last'.shown] = last'.out

C4_RejectedAmountKeepsState == [][C4_Step]_vars

\* "0" has been rejected in the debt flow's waiting_amount, with direction
\* and counterparty still in the partial record.
C4_Witness ==
    /\ last.h = "debt_amount" /\ last.text = <<"0">>
    /\ last.from = "debt_waiting_amount" /\ fsm[1] = "debt_waiting_amount"
    /\ data[1].has = {"direction", "counterparty"}
    /\ last.del /\ last.out = Scr("bad_amount", "cancel")

\* C6.  Free text where a button is expected.  A step that handles a text
\* message other than /start in waiting_category or waiting_direction is
\* taken by one of the two fallbacks, leaves the conversation state and
\* the partial record as they were, changes neither table, tries to delete
\* the message and renders the notice to choose one of the options.
C6_Step ==
    LET u == last'.u
    IN  (FreeTextHandled
             /\ fsm[u] \in {"tx_waiting_category", "debt_waiting_direction"})
        =>  /\ last'.h = (IF fsm[u] = "tx_waiting_category"
                          THEN "warn_choose_option_tx"
                          ELSE "warn_choose_option_debt_dir")
            /\ ConversationKept(u)
            /\ NothingPersisted
            /\ last'.del
            /\ ~last'.raised
            /\ last'.out.text = "warn"
            /\ msgs'[u][last'.shown] = last'.out

C6_FreeTextNotConsumed == [][C6_Step]_vars

\* "abc" has been sent in waiting_category after the amount 250.50.
C6_Witness ==
    /\ last.h = "warn_choose_option_tx" /\ last.text = <<"a", "b", "c">>
    /\ fsm[1] = "tx_waiting_category"
    /\ data[1].has = {"tx_type", "amount"}
    /\ data[1].amount = Amount250_50
    /\ last.del /\ last.out.text = "warn"

\* C7.  Free text in idle.  A step that handles a text message other than
\* /start while the user is idle is taken by generic_warn, tries to delete
\* the message, renders the reminder with the main menu into the chat,
\* leaves the user idle with an empty partial record and changes neither
\* table.
C7_Step ==
    LET u == last'.u
    IN  (FreeTextHandled /\ fsm[u] = "idle") =>
            /\ last'.h = "generic_warn"
            /\ last'.del
            /\ ~last'.raised
            /\ last'.out = Scr("warn", "main")
            /\ msgs'[u][last'.shown] = last'.out
            /\ ConversationCleared(u)
            /\ NothingPersisted

C7_IdleFreeTextDiscarded == [][C7_Step]_vars

\* "abc" has been sent by an idle user who had completed a transaction.
C7_Witness ==
    /\ last.h = "generic_warn" /\ last.from = "idle"
    /\ last.text = <<"a", "b", "c">>
    /\ Len(txs) = 1
    /\ last.del /\ last.out = Scr("warn", "main")
    /\ fsm[1] = "idle" /\ data[1] = NoData

\* What the amount step is specified against: a decimal number is digits
\* with at most one separator "." or "," between them, its value the
\* number it denotes; a text without any digit is not a number.
Seps(t) == {i \in 1..Len(t) : t[i] \in {".", ","}}
Decimal(t) ==
    /\ t # <<>>
    /\ \A i \in 1..Len(t) : t[i] \in Digits \cup {".", ","}
    /\ Cardinality(Seps(t)) <= 1
    /\ t[1] \in Digits /\ t[Len(t)] \in Digits
DecimalValue(t) ==
    LET ds == SelectSeq(t, LAMBDA c : c \in Digits)
        frac == IF Seps(t) = {} THEN 0
                ELSE Len(t) - (CHOOSE i \in Seps(t) : TRUE)
    IN  Reduce(FALSE, DigitsVal(ds), Pow10(frac))
PositiveDecimal(t) == Decimal(t) /\ DecimalValue(t).num > 0
NonPositiveDecimal(t) ==
    \/ Decimal(t) /\ DecimalValue(t).num = 0
    \/ t # <<>> /\ Head(t) = "-" /\ Decimal(Tail(t))
NonNumeric(t) == \A i \in 1..Len(t) : t[i] \notin Digits

\* C5.  Amount parsing.  Once the amount step has taken a text: if the
\* text is a decimal number with positive value, the step accepted it (the
\* flow moved on) and stored exactly that value; if the text is not a
\* number (no text, a word, "nan", "inf") or its value is not positive,
\* the step rejected it (the flow stayed in waiting_amount and no amount
\* was stored).
C5_AmountParsing ==
    last.h \in {"tx_amount", "debt_amount"} =>
        LET t == last.text
            accepted == fsm[1] # last.from /\ "amount" \in data[1].has
            rejected == fsm[1] = last.from /\ "amount" \notin data[1].has
        IN  /\ PositiveDecimal(t) =>
                  accepted /\ data[1].amount = DecimalValue(t)
            /\ (NonNumeric(t) \/ NonPositiveDecimal(t)) => rejected

\* The chat: the bot's messages that are still in user u's chat.
BotMessages(u) ==
    Cardinality({i \in 1..Len(msgs[u]) : msgs[u][i] # Deleted})

\* C8.  Failed edits.  Whenever the last render, of a text message's
\* handler or of a callback's, tried to edit the stored anchor and the edit
\* failed, the render did not raise, and the user has one stored anchor
\* id, that of a message in the chat which shows the rendered screen.
C8_FailedEditFreshAnchor ==
    last.tried # NoAnchor =>
        /\ ~last.raised
        /\ GetAnchor(users, last.u) \in 1..Len(msgs[last.u])
        /\ msgs[last.u][GetAnchor(users, last.u)] = last.out

\* C9.  The anchor after a render.  Whenever the last handler rendered a
\* screen, the render completed, the user's stored anchor is the id of the
\* message that now shows the rendered screen, and if the edit of the
\* stored anchor had failed that message is a newly sent one.
C9_AnchorIsShownMessage ==
    last.via \in {"edit", "send", "cb_edit", "raise"} =>
        /\ ~last.raised
        /\ last.shown \in 1..Len(msgs[last.u])
        /\ msgs[last.u][last.shown] = last.out
        /\ GetAnchor(users, last.u) = last.shown
        /\ last.tried # NoAnchor => last.via = "send"

\* C10.  Chat history.  The number of the bot's messages in a user's chat
\* never exceeds HistoryBound, whatever events came in.
C10_HistoryBounded == \A u \in Users : BotMessages(u) <= HistoryBound

\* C11.  Every callback acknowledged exactly once.  Whenever a button press
\* was routed to a handler, the handler has answered the callback exactly
\* once by the time it ends: after a render, after a delegated render
\* (base_save, track_toggle), after an alert without render (the rejected
\* sixth currency, rates unavailable, clear), and after a render whose
\* edits failed.
C11_AckedExactlyOnce ==
    (last.tok # NoTok /\ last.h # "unhandled") => last.acks = 1

\* C12.  Category press while the amount is awaited.  A category press in
\* waiting_amount of the transaction flow goes to tx_category_wrong_cb,
\* which keeps the state and the partial record (no category is written),
\* persists nothing and renders the notice "cat_wrong", a screen no other
\* handler renders; unless the render raised, the notice is on the message
\* the render reports and the press is answered.  A category press changes
\* the partial record only from waiting_category of the transaction flow.
C12_Step ==
    LET u == last'.u
    IN  /\ (last'.tok.act = "cat" /\ fsm[u] = "tx_waiting_amount")
               <=> last'.h = "tx_category_wrong_cb"
        /\ last'.h = "tx_category_wrong_cb" =>
               /\ ConversationKept(u)
               /\ NothingPersisted
               /\ last'.out = Scr("cat_wrong", "cancel")
               /\ ~last'.raised =>
                      /\ msgs'[u][last'.shown] = Scr("cat_wrong", "cancel")
                      /\ last'.acks = 1
        /\ last'.h # "tx_category_wrong_cb" => last'.out.text # "cat_wrong"
        /\ (last'.tok.act = "cat" /\ data'[u] # data[u]) =>
               /\ fsm[u] = "tx_waiting_category"
               /\ last'.h = "tx_category"

C12_CategoryWhileAmountAwaited == [][C12_Step]_vars

\* A category press was rejected in waiting_amount and the notice is shown.
C12_Witness ==
    /\ last.h = "tx_category_wrong_cb"
    /\ last.tok.act = "cat"
    /\ ~last.raised
    /\ fsm[last.u] = "tx_waiting_amount"
    /\ "category" \notin data[last.u].has
    /\ msgs[last.u][last.shown].text = "cat_wrong"

\* C13.  At most five tracked currencies.  A track_toggle press on a
\* currency that is not tracked while five are tracked leaves the stored
\* list as it is and answers with the alert "max5"; any other toggle adds
\* or removes exactly the pressed currency; and the stored list of every
\* user always has at most five entries, no two of them equal.
TrackedOk(us) ==
    \A u \in Users :
        /\ Len(us[u].tracked_ccy) <= 5
        /\ Cardinality(Range(us[u].tracked_ccy)) = Len(us[u].tracked_ccy)

C13_Step ==
    LET u == last'.u
        c == last'.tok.arg
        cur == Range(GetOrCreateUser(users, u)[u].tracked_ccy)
    IN  /\ TrackedOk(users')
        /\ (last'.h = "track_toggle" /\ ~last'.raised) =>
              IF c \notin cur /\ Cardinality(cur) >= 5
              THEN /\ users'[u].tracked_ccy = users[u].tracked_ccy
                   /\ last'.alert = "max5"
                   /\ last'.acks = 1
                   /\ msgs' = msgs
              ELSE /\ Range(users'[u].tracked_ccy) =
                          IF c \in cur THEN cur \ {c} ELSE cur \cup {c}
                   /\ last'.alert # "max5"
        /\ last'.h # "track_toggle" =>
              \A v \in Users :
                  users[v].exists =>
                      users'[v].tracked_ccy = users[v].tracked_ccy

C13_TrackedAtMostFive == TrackedOk(users) /\ [][C13_Step]_vars

\* A sixth currency was pressed with five tracked and was refused.
C13_Witness ==
    /\ last.h = "track_toggle"
    /\ last.alert = "max5"
    /\ last.tok.arg \notin Range(users[last.u].tracked_ccy)
    /\ Len(users[last.u].tracked_ccy) = 5

\* C14.  Debts go from open to closed only.  No step removes a debt row;
\* a step changes a debt row only when it is debt_close_cb for that row's
\* id, asked for by the row's owner while the row is open, and the row
\* then becomes closed with nothing else changed; every such request
\* closes the row.  So no row ever goes from closed to open.
C14_Step ==
    /\ Len(debts') >= Len(debts)
    /\ \A i \in 1..Len(debts) :
          LET mine == /\ last'.h = "debt_close_cb"
                      /\ last'.tok.num = i
                      /\ debts[i].user_id = last'.u
                      /\ debts[i].status = "open"
          IN  /\ mine => debts'[i] = [debts[i] EXCEPT !.status = "closed"]
              /\ ~mine => debts'[i] = debts[i]
              /\ debts[i].status = "closed" => debts'[i].status = "closed"

C14_DebtOpenToClosedOnly == [][C14_Step]_vars

\* The owner closed an open debt, and a request for another user's open
\* debt has left that debt open.
C14_Witness ==
    /\ last.h = "debt_close_cb"
    /\ \E i \in 1..Len(debts) :
          debts[i].user_id = last.u /\ debts[i].status = "closed"
    /\ last.tok.num \in 1..Len(debts)
    /\ debts[last.tok.num].user_id # last.u
    /\ debts[last.tok.num].status = "open"

\* C15.  Closing a debt that cannot be closed.  When debt_close_cb is asked
\* for an id that is not an open debt of the requesting user, no debt row
\* changes and the user is shown the notice "close_failed".
C15_Step ==
    (/\ last'.h = "debt_close_cb"
     /\ ~last'.raised
     /\ last'.tok.num \notin ListDebts(debts, last'.u))
        => debts' = debts /\ last'.alert = "close_failed"

C15_FailedCloseNotice == [][C15_Step]_vars

\* C16.  Rates unavailable.  When a rates request finds the provider
\* timing out, or answering with a non-success status, for every tracked
\* currency (none is the base currency and none is freshly cached), the
\* handler does not raise: it ends with the alert "rates_failed" and the
\* callback answered.
AllFromProvider(o) ==
    /\ o.h = "rates_cb"
    /\ Fetched(users[o.u], o.cached) = Range(FirstTracked(users[o.u]))

C16_RatesUnavailableAlert ==
    (AllFromProvider(last) /\ last.fx \in {"timeout", "bad_status"})
        => ~last.raised /\ last.alert = "rates_failed" /\ last.acks = 1

\* The sum of the amounts of u's rows of kind typ in month mk, 0 when there
\* is none; a row without an amount adds nothing.
RECURSIVE Total(_, _, _, _)
Total(t, u, typ, mk) ==
    IF t = <<>> THEN Zero
    ELSE LET r == t[Len(t)]
             before == Total(SubSeq(t, 1, Len(t) - 1), u, typ, mk)
         IN  IF r.user_id = u /\ r.type = typ /\ r.month_key = mk
                /\ r.amount.kind \in {"num", "inf"}
             THEN FloatAdd(before, r.amount) ELSE before

\* C17.  The month summary is additive.  Whenever the summary was computed
\* for a user and a month, its income and expense are the sums of that
\* user's amounts of the kind in that month (0 without rows), and its free
\* equals income - expense.
C17_SummaryAdditive ==
    last.h = "summary_cb" =>
        LET s == last.out.sums
        IN  /\ FloatEq(s.income, Total(txs, last.u, "income", s.month_key))
            /\ FloatEq(s.expense, Total(txs, last.u, "expense", s.month_key))
            /\ FloatEq(s.free, FloatSub(s.income, s.expense))

\* C18.  Persisted transactions stay as they are.  No step changes or
\* removes a row of table transactions; a step adds at most one row, only
\* tx_note does, and the new row belongs to the sender and carries the base
\* currency the sender has at that moment.  So a row keeps the currency of
\* its creation whatever the owner's base currency becomes.
C18_Step ==
    /\ Len(txs') >= Len(txs)
    /\ \A i \in 1..Len(txs) : txs'[i] = txs[i]
    /\ Len(txs') > Len(txs) =>
          /\ Len(txs') = Len(txs) + 1
          /\ last'.h = "tx_note"
          /\ txs'[Len(txs')].user_id = last'.u
          /\ txs'[Len(txs')].ccy =
                 GetOrCreateUser(users, last'.u)[last'.u].base_ccy

C18_TransactionsImmutable == [][C18_Step]_vars

\* A transaction recorded in KZT is still in KZT after its owner changed
\* the base currency to USD and closed a debt.
C18_Witness ==
    /\ Len(txs) >= 1
    /\ txs[1].ccy = "KZT"
    /\ users[txs[1].user_id].base_ccy = "USD"
    /\ \E i \in 1..Len(debts) : debts[i].status = "closed"

\* C19.  A history page beyond the data.  Whenever history_cb rendered a
\* page on which none of the user's rows lies, the page has has_more =
\* false and its only buttons are 'back' (to the menu) and 'refresh' (the
\* same page again).
C19_PageBeyondData ==
    (/\ last.h = "history_cb"
     /\ RowsOnPage(last.out.cnt, last.out.n, PER_PAGE + 1) = 0)
        => /\ ~last.out.more
           /\ Buttons(last.out) =
                  {Tok("home", "", 0), Tok("history", "", last.out.n)}

\* ---------------------------------------------------------------------
\* serve.py: the supervisor.  main() creates the http task, sleeps half a
\* second, creates the bot task and waits until one of them ends with an
\* exception; then it reports and sleeps for ever.  The tasks share no
\* state.  The handlers' variables do not change while it is observed.
\* ---------------------------------------------------------------------

\* The exits of the bot subprocess that are followed.
MaxExits == 6

\* One step of serve.py.
ServeStep(s) ==
    /\ sup' = s
    /\ UNCHANGED <<fsm, data, users, msgs, txs, debts, last, faults, tasks>>

\* main: http_task = asyncio.create_task(start_http()), then sleep(0.5).
MainStart ==
    /\ sup.main = "start"
    /\ ServeStep([sup EXCEPT !.main = "sleep05", !.http = "created"])

\* start_http: runner.setup() and site.start() either succeed, and the
\* task serves / and /health from then on (its loop only sleeps), or raise
\* (the port is taken), and the task ends with the exception.
StartHttp ==
    /\ sup.http = "created"
    /\ \E ok \in BOOLEAN :
           ServeStep([sup EXCEPT !.http = IF ok THEN "serving" ELSE "crashed"])

\* main: bot_task = asyncio.create_task(run_bot_forever()), then
\* asyncio.wait(..., return_when=FIRST_EXCEPTION).
MainCreatesBot ==
    /\ sup.main = "sleep05"
    /\ ServeStep([sup EXCEPT !.main = "waiting", !.bot = "spawning"])

\* run_bot_forever, top of the loop: create_subprocess_exec is called
\* outside any try; it returns the subprocess, or it raises and the bot
\* task ends with the exception.
BotSpawn ==
    /\ sup.bot = "spawning"
    /\ \E ok \in BOOLEAN :
           ServeStep([sup EXCEPT
               !.spawns = @ + 1,
               !.bot = IF ok THEN "waiting" ELSE "crashed",
               !.proc = IF ok THEN "running" ELSE "none"])

\* The bot subprocess exits, with any return code (Main.py raises at
\* import when BOT_TOKEN is unset, polling ends, the process is killed).
ProcExit ==
    /\ sup.proc = "running"
    /\ sup.exits < MaxExits
    /\ ServeStep([sup EXCEPT !.proc = "exited", !.exits = @ + 1])

\* run_bot_forever: proc.wait() returns, the pipe tasks are cancelled,
\* the return code is printed and sleep(1) begins.
BotReap ==
    /\ sup.bot = "waiting"
    /\ sup.proc = "exited"
    /\ ServeStep([sup EXCEPT !.bot = "sleeping", !.proc = "none"])

\* run_bot_forever with the loop left after the pause.
BotWakeReturns ==
    /\ sup.bot = "sleeping"
    /\ ServeStep([sup EXCEPT !.bot = "done"])

\* run_bot_forever: sleep(1) is over, and the while True loop goes round.
BotWake ==
    /\ sup.bot = "sleeping"
    /\ ServeStep([sup EXCEPT !.bot = "spawning"])

\* main: asyncio.wait returns because a task ended with an exception;
\* main prints the reason and sleeps for ever.  The other task is neither
\* cancelled nor restarted.
MainHolds ==
    /\ sup.main = "waiting"
    /\ \/ sup.http = "crashed"
       \/ sup.bot = "crashed"
    /\ ServeStep([sup EXCEPT !.main = "holding"])

InitServe ==
    /\ fsm = [u \in Users |-> "idle"]
    /\ data = [u \in Users |-> NoData]
    /\ users = [u \in Users |-> NoRow]
    /\ msgs = [u \in Users |-> <<>>]
    /\ txs = <<>>
    /\ debts = <<>>
    /\ last = Observed(0, "idle", "init", <<>>, NoTok, 0, FALSE, "",
                       NoRender(users, <<>>))
    /\ faults = 0
    /\ sup = SupStart
    /\ tasks = NoTasks

NextServe ==
    \/ MainStart
    \/ StartHttp
    \/ MainCreatesBot
    \/ BotSpawn
    \/ ProcExit
    \/ BotReap
    \/ BotWake
    \/ MainHolds

SpecServe == InitServe /\ [][NextServe]_vars

\* The event loop runs every task that is ready and the one-second timer
\* expires: the steps of run_bot_forever are taken once they are enabled.
\* Nothing obliges the subprocess to exit.
SpecServeFair ==
    /\ SpecServe
    /\ WF_vars(BotReap)
    /\ WF_vars(BotWake)
    /\ WF_vars(BotSpawn)

C21_PagesPartition ==
    (last.h = "history_cb" /\ ~last.raised)
        => last.out.rows =
               {r \in 1..last.out.cnt :
                    /\ PER_PAGE * (last.out.n - 1) + 1 <= r
                    /\ r <= PER_PAGE * last.out.n}

\* C22.  The next-page button leads to rows.  Whenever history_cb has
\* rendered page p with has_more (the next-page button), and the next
\* event is the press of that button with the transactions unchanged,
\* the page rendered lists at least one transaction.
C22_Step ==
    (/\ last.h = "history_cb"
     /\ last.out.more
     /\ last'.h = "history_cb"
     /\ last'.u = last.u
     /\ last'.tok = Tok("history", "", last.out.n + 1)
     /\ ~last'.raised
     /\ txs' = txs)
        => last'.out.rows # {}

C22_NextPageHasRows == [][C22_Step]_vars

\* The rows of table t (transactions or debts) that belong to user u, each
\* with its id.
RowsOf(t, u) == {<<i, t[i]>> : i \in {j \in 1..Len(t) : t[j].user_id = u}}

\* C23.  Per-user isolation.  Handling an event of one user leaves every
\* other user's conversation state, partial record, users row (anchor
\* reference and settings), transactions and debts as they were, also
\* when the event is a close-debt request naming another user's debt.
C23_Step ==
    \A b \in Users :
        b # last'.u =>
            /\ fsm'[b] = fsm[b]
            /\ data'[b] = data[b]
            /\ users'[b] = users[b]
            /\ RowsOf(txs', b) = RowsOf(txs, b)
            /\ RowsOf(debts', b) = RowsOf(debts, b)

C23_PerUserIsolation == [][C23_Step]_vars

\* User 1 has sent a close-debt request naming the open debt of user 2,
\* after changing a setting of their own, and user 2 is still asked for
\* the amount of a debt.
C23_Witness ==
    /\ last.u = 1
    /\ last.h = "debt_close_cb"
    /\ last.tok.num = 1
    /\ debts[1].user_id = 2
    /\ debts[1].status = "open"
    /\ users[1].base_ccy # users[2].base_ccy
    /\ fsm[2] = "debt_waiting_amount"

\* ---------------------------------------------------------------------
\* track_toggle as two tasks of the event loop.  aiogram handles each
\* update in a task of its own; a task runs until it awaits.  track_toggle
\* reads the row, changes the set and writes it back without an await in
\* between (its only await before the write ends the handler in the
\* over-the-limit branch); then it awaits set_tracked_cb, which reads the
\* row again and edits the anchor message.
\* ---------------------------------------------------------------------

\* The currencies whose buttons are pressed.
ToggleInputs == {"USD", "EUR", "CNY", "GBP"}

\* The tracked lists the handlers can have stored: at most MaxTracked of
\* the grid's currencies.
TrackedLists ==
    {ListOf(S) : S \in {T \in SUBSET ALL_CCY : Cardinality(T) <= MaxTracked}}

\* The task that handles the press of button tok of message mid by user u.
Task(u, mid, tok) == [u |-> u, mid |-> mid, tok |-> tok, pc |-> "start"]

\* Task i moves on to pc.
TaskAt(i, pc) == [tasks EXCEPT !.run[i].pc = pc]

\* The users table task i would work on had it read the tracked list when
\* its event arrived.
ToggleReadsAtArrival(i) ==
    [GetOrCreateUser(users, tasks.run[i].u)
        EXCEPT ![tasks.run[i].u].tracked_ccy = tasks.t0]

\* track_toggle: u = get_or_create_user(...), the read that the write
\* follows without a suspension point.
ToggleReads(i) == GetOrCreateUser(users, tasks.run[i].u)

\* track_toggle up to its first await: read, change, write; or the limit
\* is met and the alert is about to be sent.
ToggleReadWrite(i) ==
    LET t == tasks.run[i]
        c == t.tok.arg
        us1 == ToggleReads(i)
        cur == Range(us1[t.u].tracked_ccy)
        full == c \notin cur /\ Cardinality(cur) >= MaxTracked
        us2 == IF full THEN us1
               ELSE SetTrackedCcy(us1, t.u,
                        ListOf(IF c \in cur THEN cur \ {c}
                               ELSE cur \cup {c}))
    IN  /\ t.pc = "start"
        /\ Written(t.u, fsm[t.u], data[t.u], NoRender(us2, msgs[t.u]), txs,
                   debts,
                   Obs(t.u, "track_toggle", <<>>, t.tok, t.mid, 0, FALSE, "",
                       NoRender(us2, msgs[t.u])))
        /\ UNCHANGED faults
        /\ tasks' = TaskAt(i, IF full THEN "answer" ELSE "render")

\* track_toggle over the limit: cb.answer("Не более 5 валют") and return.
ToggleAnswers(i) ==
    LET t == tasks.run[i]
    IN  /\ t.pc = "answer"
        /\ Written(t.u, fsm[t.u], data[t.u], NoRender(users, msgs[t.u]),
                   txs, debts,
                   Obs(t.u, "track_toggle", <<>>, t.tok, t.mid, 1, FALSE,
                       "max5", NoRender(users, msgs[t.u])))
        /\ UNCHANGED faults
        /\ tasks' = TaskAt(i, "done")

\* track_toggle after the write: set_tracked_cb reads the row and renders
\* the grid through edit_anchor_from_cb.
ToggleRenders(i) ==
    LET t == tasks.run[i]
        us1 == GetOrCreateUser(users, t.u)
        c == TrackedScreen(us1[t.u])
    IN  /\ t.pc = "render"
        /\ \E ok1 \in BOOLEAN, ok2 \in BOOLEAN :
               LET r == EditAnchorFromCb(us1, msgs[t.u], t.u, t.mid, c,
                                         ok1, ok2)
               IN  /\ CbOutcome(us1, msgs[t.u], t.u, t.mid, c, ok1, ok2)
                   /\ Written(t.u, fsm[t.u], data[t.u], r, txs, debts,
                              Obs(t.u, "track_toggle", <<>>, t.tok, t.mid,
                                  Acked(r), FALSE, "", r))
        /\ tasks' = TaskAt(i, "done")

\* User 1 has stored a tracked list, the grid is in the anchor message,
\* and two presses of its currency buttons have arrived.
InitToggles ==
    /\ fsm = [u \in Users |-> "idle"]
    /\ data = [u \in Users |-> NoData]
    /\ \E t0 \in TrackedLists :
          /\ users = SetTrackedCcy(
                         SetAnchor(GetOrCreateUser([u \in Users |-> NoRow],
                                                   1), 1, 1), 1, t0)
          /\ \E c1 \in ToggleInputs, c2 \in ToggleInputs :
                tasks = [t0 |-> t0,
                         run |-> <<Task(1, 1, Tok("track", c1, 0)),
                                   Task(1, 1, Tok("track", c2, 0))>>]
    /\ msgs = [u \in Users |->
                  IF u = 1 THEN <<TrackedScreen(users[1])>> ELSE <<>>]
    /\ txs = <<>>
    /\ debts = <<>>
    /\ last = Observed(0, "idle", "init", <<>>, NoTok, 0, FALSE, "",
                       NoRender(users, <<>>))
    /\ faults = 0
    /\ sup = SupRunning

\* The event loop runs a step of either task.
NextToggles ==
    \E i \in 1..2 :
        \/ ToggleReadWrite(i)
        \/ ToggleAnswers(i)
        \/ ToggleRenders(i)

SpecToggles == InitToggles /\ [][NextToggles]_vars

\* One toggle of currency c on the set S, with the limit of five.
Toggled(S, c) ==
    IF c \in S THEN S \ {c}
    ELSE IF Cardinality(S) >= 5 THEN S ELSE S \cup {c}

\* C24.  Two track-toggle events of one user whose handlers interleave at
\* their suspension points: the tracked set has never more than 5
\* entries; after the write of one handler alone it is the starting set
\* with that toggle applied, and after both it is the result of the two
\* toggles in one of the two serial orders.
C24_TogglesSerial ==
    LET cur == Range(users[1].tracked_ccy)
        s0 == Range(tasks.t0)
        c1 == tasks.run[1].tok.arg
        c2 == tasks.run[2].tok.arg
        w1 == tasks.run[1].pc # "start"
        w2 == tasks.run[2].pc # "start"
    IN  tasks.run # <<>> =>
            /\ Cardinality(cur) <= 5
            /\ Len(users[1].tracked_ccy) = Cardinality(cur)
            /\ (w1 /\ ~w2) => cur = Toggled(s0, c1)
            /\ (w2 /\ ~w1) => cur = Toggled(s0, c2)
            /\ (w1 /\ w2) => cur \in {Toggled(Toggled(s0, c1), c2),
                                     Toggled(Toggled(s0, c2), c1)}

\* Both handlers have finished, the second task last; the two currencies
\* differ, neither was tracked, and both are tracked now.
C24_Witness ==
    /\ tasks.run # <<>>
    /\ tasks.run[1].pc = "done"
    /\ tasks.run[2].pc = "done"
    /\ last.tok = tasks.run[2].tok
    /\ tasks.run[1].tok # tasks.run[2].tok
    /\ {tasks.run[1].tok.arg, tasks.run[2].tok.arg}
           \cap Range(tasks.t0) = {}
    /\ Range(users[1].tracked_ccy) =
           Range(tasks.t0)
               \cup {tasks.run[1].tok.arg, tasks.run[2].tok.arg}

\* amount > 0 for a float.
GreaterThanZero(v) ==
    CASE v.kind = "num" -> ~v.neg /\ v.num > 0
      [] v.kind = "inf" -> ~v.neg
      [] OTHER -> FALSE

\* C25.  Partial-record completeness.  Whenever a user's conversation
\* state is the transaction flow's waiting_note, the partial record holds
\* a kind that is income or expense, an amount > 0 and a category;
\* whenever it is the debt flow's waiting_note, it holds a direction, a
\* counterparty and an amount > 0.
C25_PartialRecordComplete ==
    \A u \in Users :
        /\ fsm[u] = "tx_waiting_note" =>
               /\ {"tx_type", "amount", "category"} \subseteq data[u].has
               /\ data[u].tx_type \in {"income", "expense"}
               /\ GreaterThanZero(data[u].amount)
        /\ fsm[u] = "debt_waiting_note" =>
               /\ {"direction", "counterparty", "amount"}
                      \subseteq data[u].has
               /\ GreaterThanZero(data[u].amount)

\* C26.  The selection stays on the screen.  Whenever the handling of a
\* user's event rendered a screen and left the user's conversation state
\* at waiting_category, the screen carries the category buttons of the
\* record's kind and 'skip'; when it left the state at waiting_direction,
\* the screen carries the two direction buttons.
C26_SelectionOffered ==
    (last.u \in Users /\ last.shown # 0) =>
        /\ fsm[last.u] = "tx_waiting_category" =>
               (kb_categories(data[last.u].tx_type = "income")
                    \ {Tok("cancel", "", 0)})
                   \subseteq Buttons(last.out)
        /\ fsm[last.u] = "debt_waiting_direction" =>
               {Tok("dir", "to_me", 0), Tok("dir", "from_me", 0)}
                   \subseteq Buttons(last.out)

\* C27.  The main menu means idle.  Whenever the handling of a user's
\* event rendered a screen that carries the main-menu keyboard, that
\* user's conversation state is idle afterwards.
C27_MainMenuMeansIdle ==
    (/\ last.u \in Users
     /\ last.shown # 0
     /\ kb_main \subseteq Buttons(last.out))
        => fsm[last.u] = "idle"

\* C28.  Every rendered button has a handler.  Whenever the handling of a
\* user's event rendered a screen, the router gives the press of each
\* button of that screen, in the conversation state the handler left, to
\* a handler.
C28_ButtonsRouted ==
    (last.u \in Users /\ last.shown # 0) =>
        \A tok \in Buttons(last.out) :
            CbHandler(fsm[last.u], tok) # "unhandled"

=============================================================================
